---- MODULE Spec2Model ----
(***************************************************************************)
(* The string split state machine of library/core/src/str/iter.rs          *)
(* (split_internal!), its forward and reverse wrappers and the piece count *)
(* limiter (generate_n_iterators!), and the predicate based slice splitter *)
(* of library/core/src/slice/iter/macros.rs (split_iter!).                 *)
(*                                                                         *)
(* A haystack is a sequence of characters; an offset i in 0..len is the    *)
(* position before character i+1.  A piece is the pair <<lo, hi>> of the   *)
(* offsets passed to get_unchecked(lo..hi); Option::None is <<>>.          *)
(***************************************************************************)
EXTENDS Integers, Sequences, FiniteSets, TLC

\* Bounds of the model.
MaxLen == 4
MaxCount == 3

\* The characters of a haystack; Sep is the character the pattern matches.
Sep == ","
Alphabet == {"a", Sep}

None == <<>>
Some(lo, hi) == <<lo, hi>>
IsSome(r) == r # None

Min(a, b) == IF a <= b THEN a ELSE b
SetMin(S) == CHOOSE x \in S : \A y \in S : x <= y
SetMax(S) == CHOOSE x \in S : \A y \in S : x >= y

Haystacks == UNION {[1..n -> Alphabet] : n \in 0..MaxLen}

\* haystack.get_unchecked(lo..hi)
get_unchecked(h, r) == SubSeq(h, r[1] + 1, r[2])
is_empty(r) == r[1] = r[2]

(***************************************************************************)
(* The configurations: the six invocations of split_internal!.             *)
(***************************************************************************)
Configs ==
    {"Split", "SplitInclusive", "SplitLeftInclusive",
     "SplitInitiator", "SplitTerminator", "SplitEnds"}

include_leading(c) == c = "SplitLeftInclusive"
include_trailing(c) == c = "SplitInclusive"
has_skip_leading_empty(c) == c \in {"SplitLeftInclusive", "SplitInitiator", "SplitEnds"}
has_skip_trailing_empty(c) == c \in {"SplitInclusive", "SplitTerminator", "SplitEnds"}

(***************************************************************************)
(* The search capability: a double-ended searcher for the character Sep.   *)
(* It owns two fingers; forward matches are taken from finger upwards,     *)
(* backward matches from finger_back downwards, and the two never cross.   *)
(***************************************************************************)
into_searcher(h) == [finger |-> 0, finger_back |-> Len(h)]

MatchStarts(h, s) == {i \in s.finger .. (s.finger_back - 1) : h[i + 1] = Sep}

next_match(h, s) ==
    IF MatchStarts(h, s) = {}
    THEN [matcher |-> [s EXCEPT !.finger = s.finger_back], ret |-> None]
    ELSE LET a == SetMin(MatchStarts(h, s))
         IN  [matcher |-> [s EXCEPT !.finger = a + 1], ret |-> <<a, a + 1>>]

next_match_back(h, s) ==
    IF MatchStarts(h, s) = {}
    THEN [matcher |-> [s EXCEPT !.finger_back = s.finger], ret |-> None]
    ELSE LET a == SetMax(MatchStarts(h, s))
         IN  [matcher |-> [s EXCEPT !.finger_back = a], ret |-> <<a, a + 1>>]

(***************************************************************************)
(* split_internal!: the machine.  A skip flag the configuration does not   *)
(* declare is the constant FALSE (its code is not generated).              *)
(***************************************************************************)
new(h, c) ==
    [start |-> 0,
     end |-> Len(h),
     matcher |-> into_searcher(h),
     finished |-> FALSE,
     skip_leading_empty |-> has_skip_leading_empty(c),
     skip_trailing_empty |-> has_skip_trailing_empty(c)]

\* next_new_start with the roles of a and b exchanged.
next_new_start_swapped(c, a, b) == IF include_leading(c) THEN b ELSE a

\* next_end_idx with the roles of a and b exchanged.
next_end_idx_swapped(c, a, b) == IF include_trailing(c) THEN a ELSE b

\* The piece a forward match (a, b) yields, and the cursor it leaves.
next_end_idx(c, a, b) == IF include_trailing(c) THEN b ELSE a
\* next_new_start leaving the cursor one past the end of the match.
next_new_start_past(c, a, b) == b + 1

next_new_start(c, a, b) == IF include_leading(c) THEN a ELSE b

\* next_withholds that never withholds the remainder.
next_withholds_never(m, elt) == FALSE

\* next_withholds that withholds every empty remainder, whatever the flag.
next_withholds_always(m, elt) == is_empty(elt)

\* Whether the no-match step of next() withholds its remainder.
next_withholds(m, elt) == m.skip_trailing_empty /\ is_empty(elt)

\* next() from the searcher query on (lines 679-695), entered unfinished.
next_search(h, c, m) ==
    LET q == next_match(h, m.matcher)
        m1 == [m EXCEPT !.matcher = q.matcher]
    IN  IF IsSome(q.ret)
        THEN LET a == q.ret[1]
                 b == q.ret[2]
             IN  [iter |-> [m1 EXCEPT !.start = next_new_start(c, a, b)],
                  ret |-> Some(m.start, next_end_idx(c, a, b))]
        ELSE LET elt == Some(m.start, m.end)
                 m2 == [m1 EXCEPT !.finished = TRUE]
             IN  [iter |-> m2,
                  ret |-> IF next_withholds(m2, elt) THEN None ELSE elt]

\* next_skip_leading that discards the piece it takes whether empty or not.
next_skip_leading_any(h, c, m) ==
    LET r == next_search(h, c, [m EXCEPT !.skip_leading_empty = FALSE])
    IN  IF r.iter.finished
        THEN [iter |-> r.iter, ret |-> None]
        ELSE next_search(h, c, r.iter)

\* The skip_leading_empty block of next() (lines 667-677): the first call
\* takes one piece by a nested call and discards it if it is empty.
next_skip_leading(h, c, m) ==
    LET r == next_search(h, c, [m EXCEPT !.skip_leading_empty = FALSE])
    IN  IF IsSome(r.ret) /\ ~is_empty(r.ret)
        THEN r
        ELSE IF r.iter.finished
             THEN [iter |-> r.iter, ret |-> None]
             ELSE next_search(h, c, r.iter)

\* next() without its `if self.finished` return.
next_unfused(h, c, m) ==
    IF m.skip_leading_empty
    THEN next_skip_leading(h, c, m)
    ELSE next_search(h, c, m)

next(h, c, m) ==
    IF m.finished
    THEN [iter |-> m, ret |-> None]
    ELSE IF m.skip_leading_empty
         THEN next_skip_leading(h, c, m)
         ELSE next_search(h, c, m)

\* next_back_start_idx with the roles of a and b exchanged.
next_back_start_idx_swapped(c, a, b) == IF include_leading(c) THEN b ELSE a

\* The piece a backward match (a, b) yields, and the cursor it leaves.
next_back_start_idx(c, a, b) == IF include_leading(c) THEN a ELSE b
next_back_new_end(c, a, b) == IF include_trailing(c) THEN b ELSE a

\* next_back_withholds that never withholds the remainder.
next_back_withholds_never(m, elt) == FALSE

\* Whether the no-match step of next_back() withholds its remainder.
next_back_withholds(m, elt) == m.skip_leading_empty /\ is_empty(elt)

\* next_back() from the searcher query on (lines 719-735), entered unfinished.
next_back_search(h, c, m) ==
    LET q == next_match_back(h, m.matcher)
        m1 == [m EXCEPT !.matcher = q.matcher]
    IN  IF IsSome(q.ret)
        THEN LET a == q.ret[1]
                 b == q.ret[2]
             IN  [iter |-> [m1 EXCEPT !.end = next_back_new_end(c, a, b)],
                  ret |-> Some(next_back_start_idx(c, a, b), m.end)]
        ELSE LET elt == Some(m.start, m.end)
                 m2 == [m1 EXCEPT !.finished = TRUE]
             IN  [iter |-> m2,
                  ret |-> IF next_back_withholds(m2, elt) THEN None ELSE elt]

\* The skip_trailing_empty block of next_back() (lines 707-717).
next_back_skip_trailing(h, c, m) ==
    LET r == next_back_search(h, c, [m EXCEPT !.skip_trailing_empty = FALSE])
    IN  IF IsSome(r.ret) /\ ~is_empty(r.ret)
        THEN r
        ELSE IF r.iter.finished
             THEN [iter |-> r.iter, ret |-> None]
             ELSE next_back_search(h, c, r.iter)

\* next_back() without its `if self.finished` return.
next_back_unfused(h, c, m) ==
    IF m.skip_trailing_empty
    THEN next_back_skip_trailing(h, c, m)
    ELSE next_back_search(h, c, m)

next_back(h, c, m) ==
    IF m.finished
    THEN [iter |-> m, ret |-> None]
    ELSE IF m.skip_trailing_empty
         THEN next_back_skip_trailing(h, c, m)
         ELSE next_back_search(h, c, m)

\* finish_withholds looking at the trailing flag alone, as next() does.
finish_withholds_trailing_only(m, elt) == m.skip_trailing_empty /\ is_empty(elt)

\* Whether finish() withholds the remainder it collapses.
finish_withholds(m, elt) ==
    (FALSE \/ m.skip_leading_empty \/ m.skip_trailing_empty) /\ is_empty(elt)

\* finish() without `self.finished = true`.
finish_no_mark(h, c, m) ==
    IF m.finished
    THEN [iter |-> m, ret |-> None]
    ELSE LET elt == Some(m.start, m.end)
         IN  [iter |-> m,
              ret |-> IF finish_withholds(m, elt) THEN None ELSE elt]

\* finish() that moves start up to end.
finish_collapsing(h, c, m) ==
    IF m.finished
    THEN [iter |-> m, ret |-> None]
    ELSE LET m1 == [m EXCEPT !.finished = TRUE, !.start = m.end]
             elt == Some(m.start, m.end)
         IN  [iter |-> m1,
              ret |-> IF finish_withholds(m1, elt) THEN None ELSE elt]

finish(h, c, m) ==
    IF m.finished
    THEN [iter |-> m, ret |-> None]
    ELSE LET m1 == [m EXCEPT !.finished = TRUE]
             elt == Some(m.start, m.end)
         IN  [iter |-> m1,
              ret |-> IF finish_withholds(m1, elt) THEN None ELSE elt]

\* as_str() without its `if self.finished` arm.
as_str_unfinished(h, c, m) == get_unchecked(h, <<m.start, m.end>>)

\* as_str(): the remainder of the split string.
as_str(h, c, m) == IF m.finished THEN <<>> ELSE get_unchecked(h, <<m.start, m.end>>)

(***************************************************************************)
(* generate_n_iterators!: the limiter.  The forward limiter wraps the      *)
(* forward iterator (whose next() is the machine's next()), the reverse    *)
(* limiter wraps the reverse iterator (whose next() is next_back()).       *)
(***************************************************************************)
Wrappers == {"Iter", "N", "RN"}

inner_next(w, h, c, m) ==
    IF w = "RN" THEN next_back(h, c, m) ELSE next(h, c, m)

\* n_next whose `1` arm calls the inner next() instead of finish().
n_next_oversplit(w, h, c, m, n) ==
    IF n = 0
    THEN [iter |-> m, count |-> n, ret |-> None]
    ELSE LET r == inner_next(w, h, c, m)
         IN  [iter |-> r.iter, count |-> n - 1, ret |-> r.ret]

\* n_next whose `_` arm does not decrement count.
n_next_no_decrement(w, h, c, m, n) ==
    IF n = 0
    THEN [iter |-> m, count |-> n, ret |-> None]
    ELSE IF n = 1
         THEN LET r == finish(h, c, m)
              IN  [iter |-> r.iter, count |-> 0, ret |-> r.ret]
         ELSE LET r == inner_next(w, h, c, m)
              IN  [iter |-> r.iter, count |-> n, ret |-> r.ret]

\* n_next whose `1` arm does not set count to 0.
n_next_keeps_one(w, h, c, m, n) ==
    IF n = 0
    THEN [iter |-> m, count |-> n, ret |-> None]
    ELSE IF n = 1
         THEN LET r == finish(h, c, m)
              IN  [iter |-> r.iter, count |-> 1, ret |-> r.ret]
         ELSE LET r == inner_next(w, h, c, m)
              IN  [iter |-> r.iter, count |-> n - 1, ret |-> r.ret]

n_next(w, h, c, m, n) ==
    IF n = 0
    THEN [iter |-> m, count |-> n, ret |-> None]
    ELSE IF n = 1
         THEN LET r == finish(h, c, m)
              IN  [iter |-> r.iter, count |-> 0, ret |-> r.ret]
         ELSE LET r == inner_next(w, h, c, m)
              IN  [iter |-> r.iter, count |-> n - 1, ret |-> r.ret]

(***************************************************************************)
(* split_iter! of library/core/src/slice/iter/macros.rs: the predicate     *)
(* based slice splitter, in its shared reference form.  The slice is the   *)
(* haystack, the predicate holds of the elements equal to Sep, and self.v  *)
(* is the pair <<lo, hi>> of the offsets of the original slice it covers.  *)
(***************************************************************************)
SliceConfigs == {"SliceSplit", "SliceSplitInclusive", "SliceSplitLeftInclusive"}

slice_include_leading(c) == c = "SliceSplitLeftInclusive"
slice_include_trailing(c) == c = "SliceSplitInclusive"

slice_new(h) == [v |-> <<0, Len(h)>>, finished |-> FALSE]

\* slice_position starting its search twice as far in as it is told.
slice_position_too_far(h, v, offset) ==
    LET hits == {i \in (v[1] + 2 * offset) .. (v[2] - 1) : h[i + 1] = Sep}
    IN  IF hits = {} THEN {} ELSE {SetMin(hits)}

\* self.v[offset..].iter().position(pred).map(|i| i + offset), as an offset
\* of the original slice; {} when there is none.
slice_position(h, v, offset) ==
    LET hits == {i \in (v[1] + offset) .. (v[2] - 1) : h[i + 1] = Sep}
    IN  IF hits = {} THEN {} ELSE {SetMin(hits)}

\* self.v[..(self.v.len() - offset)].iter().rposition(pred)
slice_rposition(h, v, offset) ==
    LET hits == {i \in v[1] .. (v[2] - 1 - offset) : h[i + 1] = Sep}
    IN  IF hits = {} THEN {} ELSE {SetMax(hits)}

slice_next(h, c, m) ==
    IF m.finished
    THEN [iter |-> m, ret |-> None]
    ELSE IF slice_include_leading(c) /\ is_empty(m.v)
    THEN [iter |-> [m EXCEPT !.finished = TRUE], ret |-> None]
    ELSE LET offset == IF slice_include_leading(c) THEN 1 ELSE 0
             idx_opt == slice_position(h, m.v, offset)
         IN  IF idx_opt = {}
             THEN [iter |-> [m EXCEPT !.finished = TRUE],
                   ret |-> IF slice_include_trailing(c) /\ is_empty(m.v)
                           THEN None ELSE m.v]
             ELSE LET idx == CHOOSE i \in idx_opt : TRUE
                      ret_end == IF slice_include_trailing(c) THEN idx + 1 ELSE idx
                      v_start == IF slice_include_leading(c) THEN idx ELSE idx + 1
                  IN  [iter |-> [m EXCEPT !.v = <<v_start, m.v[2]>>],
                       ret |-> Some(m.v[1], ret_end)]

\* slice_next_back whose match arm starts its piece after the matched element
\* whether include_leading is set or not.
slice_next_back_start_after(h, c, m) ==
    IF m.finished
    THEN [iter |-> m, ret |-> None]
    ELSE IF slice_include_trailing(c) /\ is_empty(m.v)
    THEN [iter |-> [m EXCEPT !.finished = TRUE], ret |-> None]
    ELSE LET offset == IF slice_include_trailing(c) THEN 1 ELSE 0
             idx_opt == slice_rposition(h, m.v, offset)
         IN  IF idx_opt = {}
             THEN [iter |-> [m EXCEPT !.finished = TRUE],
                   ret |-> IF slice_include_leading(c) /\ is_empty(m.v)
                           THEN None ELSE m.v]
             ELSE LET idx == CHOOSE i \in idx_opt : TRUE
                      v_end == IF slice_include_trailing(c) THEN idx + 1 ELSE idx
                  IN  [iter |-> [m EXCEPT !.v = <<m.v[1], v_end>>],
                       ret |-> Some(idx + 1, m.v[2])]

slice_next_back(h, c, m) ==
    IF m.finished
    THEN [iter |-> m, ret |-> None]
    ELSE IF slice_include_trailing(c) /\ is_empty(m.v)
    THEN [iter |-> [m EXCEPT !.finished = TRUE], ret |-> None]
    ELSE LET offset == IF slice_include_trailing(c) THEN 1 ELSE 0
             idx_opt == slice_rposition(h, m.v, offset)
         IN  IF idx_opt = {}
             THEN [iter |-> [m EXCEPT !.finished = TRUE],
                   ret |-> IF slice_include_leading(c) /\ is_empty(m.v)
                           THEN None ELSE m.v]
             ELSE LET idx == CHOOSE i \in idx_opt : TRUE
                      ret_start == IF slice_include_leading(c) THEN idx ELSE idx + 1
                      v_end == IF slice_include_trailing(c) THEN idx + 1 ELSE idx
                  IN  [iter |-> [m EXCEPT !.v = <<m.v[1], v_end>>],
                       ret |-> Some(ret_start, m.v[2])]

\* slice_finish returning the remaining slice even when it is empty.
slice_finish_keeps_empty(h, c, m) ==
    IF m.finished
    THEN [iter |-> m, ret |-> None]
    ELSE [iter |-> [m EXCEPT !.finished = TRUE], ret |-> m.v]

slice_finish(h, c, m) ==
    IF m.finished
    THEN [iter |-> m, ret |-> None]
    ELSE [iter |-> [m EXCEPT !.finished = TRUE],
          ret |-> IF (slice_include_leading(c) \/ slice_include_trailing(c))
                        /\ is_empty(m.v)
                  THEN None ELSE m.v]

\* slice_size_hint leaving the extra piece of the exclusive configuration
\* out of both bounds.
slice_size_hint_no_min(c, m) ==
    IF m.finished
    THEN <<0, 0>>
    ELSE <<0, m.v[2] - m.v[1]>>

\* size_hint(): <<lower, upper>> for (lower, Some(upper))
slice_size_hint(c, m) ==
    IF m.finished
    THEN <<0, 0>>
    ELSE LET min == IF slice_include_leading(c) \/ slice_include_trailing(c)
                    THEN 0 ELSE 1
         IN  <<min, (m.v[2] - m.v[1]) + min>>

(***************************************************************************)
(* The mut_ref arms of split_iter!: the remaining slice is moved out of    *)
(* self.v with mem::replace, which leaves the empty slice &mut [] behind,  *)
(* is cut in two with split_at_mut, and one half is moved back.            *)
(***************************************************************************)
\* &mut []: an empty slice; as a range of the original slice it covers no
\* index.
empty_mut == <<0, 0>>

\* tmp.split_at_mut(mid), mid an offset of the original slice
split_at_mut(tmp, mid) == [head |-> <<tmp[1], mid>>, tail |-> <<mid, tmp[2]>>]

\* let split_idx = if include_trailing { idx + 1 } else { idx }
split_idx(c, idx) == IF slice_include_trailing(c) THEN idx + 1 ELSE idx

\* tail_start dropping one element of the tail in every configuration.
tail_start_drops_one(c) == 1

\* let tail_start = if (include_leading ^ include_trailing) { 0 } else { 1 }
tail_start(c) ==
    IF slice_include_leading(c) # slice_include_trailing(c) THEN 0 ELSE 1

slice_next_mut(h, c, m) ==
    IF m.finished
    THEN [iter |-> m, ret |-> None]
    ELSE IF slice_include_leading(c) /\ is_empty(m.v)
    THEN [iter |-> [m EXCEPT !.finished = TRUE], ret |-> None]
    ELSE LET offset == IF slice_include_leading(c) THEN 1 ELSE 0
             idx_opt == slice_position(h, m.v, offset)
         IN  IF idx_opt = {}
             THEN IF slice_include_trailing(c) /\ is_empty(m.v)
                  THEN [iter |-> [m EXCEPT !.finished = TRUE], ret |-> None]
                  ELSE [iter |-> [m EXCEPT !.finished = TRUE, !.v = empty_mut],
                        ret |-> m.v]
             ELSE LET idx == CHOOSE i \in idx_opt : TRUE
                      tmp == m.v
                      cut == split_at_mut(tmp, split_idx(c, idx))
                  IN  [iter |-> [m EXCEPT !.v = <<cut.tail[1] + tail_start(c),
                                                  cut.tail[2]>>],
                       ret |-> cut.head]

slice_next_back_mut(h, c, m) ==
    IF m.finished
    THEN [iter |-> m, ret |-> None]
    ELSE IF slice_include_trailing(c) /\ is_empty(m.v)
    THEN [iter |-> [m EXCEPT !.finished = TRUE], ret |-> None]
    ELSE LET offset == IF slice_include_trailing(c) THEN 1 ELSE 0
             idx_opt == slice_rposition(h, m.v, offset)
         IN  IF idx_opt = {}
             THEN IF slice_include_leading(c) /\ is_empty(m.v)
                  THEN [iter |-> [m EXCEPT !.finished = TRUE], ret |-> None]
                  ELSE [iter |-> [m EXCEPT !.finished = TRUE, !.v = empty_mut],
                        ret |-> m.v]
             ELSE LET idx == CHOOSE i \in idx_opt : TRUE
                      tmp == m.v
                      cut == split_at_mut(tmp, split_idx(c, idx))
                  IN  [iter |-> [m EXCEPT !.v = cut.head],
                       ret |-> <<cut.tail[1] + tail_start(c), cut.tail[2]>>]

slice_finish_mut(h, c, m) ==
    IF m.finished
    THEN [iter |-> m, ret |-> None]
    ELSE [iter |-> [m EXCEPT !.finished = TRUE, !.v = empty_mut],
          ret |-> IF (slice_include_leading(c) \/ slice_include_trailing(c))
                        /\ is_empty(m.v)
                  THEN None ELSE m.v]

(***************************************************************************)
(* The state machine.                                                      *)
(***************************************************************************)
VARIABLES
    haystack,       \* the string being split
    cfg,            \* which split_internal! (or split_iter!) instance
    wrapper,        \* "Iter": the machine driven directly; "N"/"RN": a limiter;
                    \* "Slice": the slice splitter driven directly
    limit,          \* the n given to max_items
    iter,           \* the machine: start, end, matcher, finished, skip flags
    count,          \* the limiter's count
    op,             \* the last call made
    ret,            \* what the last call returned
    front,          \* the pieces next() returned, in call order
    back,           \* the pieces next_back() returned, in call order
    exhausted,      \* a next()/next_back() call has returned None
    finish_called,  \* finish() has been called on the machine
    prev            \* iter, count, exhausted, finish_called as the last call found them

vars == <<haystack, cfg, wrapper, limit, iter, count, op, ret, front, back,
          exhausted, finish_called, prev>>

snapshot ==
    [iter |-> iter, count |-> count,
     exhausted |-> exhausted, finish_called |-> finish_called]

construct(w, h, c) == IF w = "Slice" THEN slice_new(h) ELSE new(h, c)

Init ==
    /\ haystack \in Haystacks
    /\ wrapper \in Wrappers \cup {"Slice"}
    /\ cfg \in (IF wrapper = "Slice" THEN SliceConfigs ELSE Configs)
    /\ limit \in (IF wrapper \in {"N", "RN"} THEN 0..MaxCount ELSE {0})
    /\ iter = construct(wrapper, haystack, cfg)
    /\ count = limit
    /\ op = "new"
    /\ ret = None
    /\ front = <<>>
    /\ back = <<>>
    /\ exhausted = FALSE
    /\ finish_called = FALSE
    /\ prev = [iter |-> construct(wrapper, haystack, cfg), count |-> limit,
               exhausted |-> FALSE, finish_called |-> FALSE]

Push(s, r) == IF IsSome(r) THEN Append(s, r) ELSE s

CallNext ==
    /\ wrapper = "Iter"
    /\ LET r == next(haystack, cfg, iter)
       IN  /\ iter' = r.iter
           /\ ret' = r.ret
           /\ front' = Push(front, r.ret)
           /\ exhausted' = (exhausted \/ r.ret = None)
    /\ op' = "next"
    /\ prev' = snapshot
    /\ UNCHANGED <<haystack, cfg, wrapper, limit, count, back, finish_called>>

CallNextBack ==
    /\ wrapper = "Iter"
    /\ LET r == next_back(haystack, cfg, iter)
       IN  /\ iter' = r.iter
           /\ ret' = r.ret
           /\ back' = Push(back, r.ret)
           /\ exhausted' = (exhausted \/ r.ret = None)
    /\ op' = "next_back"
    /\ prev' = snapshot
    /\ UNCHANGED <<haystack, cfg, wrapper, limit, count, front, finish_called>>

CallFinish ==
    /\ wrapper = "Iter"
    /\ LET r == finish(haystack, cfg, iter)
       IN  /\ iter' = r.iter
           /\ ret' = r.ret
    /\ op' = "finish"
    /\ finish_called' = TRUE
    /\ prev' = snapshot
    /\ UNCHANGED <<haystack, cfg, wrapper, limit, count, front, back, exhausted>>

\* next() of a limiter; its pieces are recorded in front, in call order.
CallNNext ==
    /\ wrapper \in {"N", "RN"}
    /\ LET r == n_next(wrapper, haystack, cfg, iter, count)
       IN  /\ iter' = r.iter
           /\ count' = r.count
           /\ ret' = r.ret
           /\ front' = Push(front, r.ret)
           /\ exhausted' = (exhausted \/ r.ret = None)
    /\ op' = "n_next"
    /\ finish_called' = (finish_called \/ count = 1)
    /\ prev' = snapshot
    /\ UNCHANGED <<haystack, cfg, wrapper, limit, back>>

CallSliceNext ==
    /\ wrapper = "Slice"
    /\ LET r == slice_next(haystack, cfg, iter)
       IN  /\ iter' = r.iter
           /\ ret' = r.ret
           /\ front' = Push(front, r.ret)
           /\ exhausted' = (exhausted \/ r.ret = None)
    /\ op' = "next"
    /\ prev' = snapshot
    /\ UNCHANGED <<haystack, cfg, wrapper, limit, count, back, finish_called>>

CallSliceNextBack ==
    /\ wrapper = "Slice"
    /\ LET r == slice_next_back(haystack, cfg, iter)
       IN  /\ iter' = r.iter
           /\ ret' = r.ret
           /\ back' = Push(back, r.ret)
           /\ exhausted' = (exhausted \/ r.ret = None)
    /\ op' = "next_back"
    /\ prev' = snapshot
    /\ UNCHANGED <<haystack, cfg, wrapper, limit, count, front, finish_called>>

CallSliceFinish ==
    /\ wrapper = "Slice"
    /\ LET r == slice_finish(haystack, cfg, iter)
       IN  /\ iter' = r.iter
           /\ ret' = r.ret
    /\ op' = "finish"
    /\ finish_called' = TRUE
    /\ prev' = snapshot
    /\ UNCHANGED <<haystack, cfg, wrapper, limit, count, front, back, exhausted>>

Next ==
    \/ CallNext \/ CallNextBack \/ CallFinish \/ CallNNext
    \/ CallSliceNext \/ CallSliceNextBack \/ CallSliceFinish

Spec == Init /\ [][Next]_vars

(***************************************************************************)
(* iterator! of library/core/src/slice/iter/macros.rs: the cursor-pair     *)
(* iterator (Iter, IterMut) over a slice of elements of size sz.  An       *)
(* address is a number below AddrSpace, the slice lies at slice_addr, and  *)
(* the iterator is the record of its fields ptr and end.  The field ub     *)
(* records that a call broke the contract of an unsafe operation it used   *)
(* (an offset out of the slice, an unchecked subtraction that wraps, an    *)
(* inexact division, a dereference outside the slice): from then on the    *)
(* other fields stand for any value.                                       *)
(***************************************************************************)
AddrBits == 3
AddrSpace == 2 ^ AddrBits
MaxElems == 3
ElemSizes == {0, 2}
slice_addr == 1

wrapping_sub(a, b) == (a - b) % AddrSpace

\* `n as isize`
as_isize(n) == IF n >= AddrSpace \div 2 THEN n - AddrSpace ELSE n

\* The slices of element size sz: any count of zero-sized elements, and up to
\* MaxElems sized ones that fit in the address space.
Buffers(sz) ==
    {[i \in 1 .. k |-> i] :
        k \in IF sz = 0
              THEN 0 .. (AddrSpace - 1)
              ELSE {n \in 0 .. MaxElems : slice_addr + n * sz < AddrSpace}}

\* The iterator of a slice: for a zero-sized element type end is ptr plus
\* the count, wrapping; otherwise it is the address past the last element.
iter_new(h, sz) ==
    [ptr |-> slice_addr,
     end |-> IF sz = 0
             THEN (slice_addr + Len(h)) % AddrSpace
             ELSE slice_addr + Len(h) * sz,
     ub |-> FALSE]

\* An address the slice's allocation holds, its one-past-the-end included.
in_bounds(h, sz, p) == slice_addr <= p /\ p <= slice_addr + Len(h) * sz

\* Reading the element at p is outside the contract of the dereference.
deref_ub(h, sz, p) == sz # 0 /\ ~(in_bounds(h, sz, p) /\ in_bounds(h, sz, p + sz))

iter_is_empty(it) == it.ptr = it.end

\* len! breaks the contract of unchecked_sub or of exact_div.
len_ub(sz, it) == sz # 0 /\ (it.end < it.ptr \/ (it.end - it.ptr) % sz # 0)

\* len! subtracting without wrapping for zero-sized elements as well.
len_without_wrapping(sz, it) ==
    IF sz = 0
    THEN it.end - it.ptr
    ELSE (it.end - it.ptr) \div sz

len(sz, it) ==
    IF sz = 0
    THEN wrapping_sub(it.end, it.ptr)
    ELSE (it.end - it.ptr) \div sz

\* zst_shrink that moves end forwards by n.
zst_shrink_forwards(it, n) == [it EXCEPT !.end = (it.end + n) % AddrSpace]

\* (self.end as *u8).wrapping_offset(-n), n the signed offset: -n is formed
\* in isize, where -isize::MIN wraps to isize::MIN (core is built without
\* overflow checks), and moves end by the same amount modulo AddrSpace.
zst_shrink(it, n) == [it EXCEPT !.end = (it.end - n) % AddrSpace]

\* post_inc_start moving ptr by offset bytes instead of offset elements.
post_inc_start_bytes(h, sz, it, offset) ==
    IF sz = 0
    THEN [iter |-> zst_shrink(it, offset), ret |-> it.ptr]
    ELSE LET p == it.ptr + offset
         IN  [iter |-> [it EXCEPT !.ptr = p % AddrSpace,
                                  !.ub = @ \/ ~in_bounds(h, sz, p)],
              ret |-> it.ptr]

post_inc_start(h, sz, it, offset) ==
    IF sz = 0
    THEN [iter |-> zst_shrink(it, offset), ret |-> it.ptr]
    ELSE LET p == it.ptr + offset * sz
         IN  [iter |-> [it EXCEPT !.ptr = p % AddrSpace,
                                  !.ub = @ \/ ~in_bounds(h, sz, p)],
              ret |-> it.ptr]

pre_dec_end(h, sz, it, offset) ==
    IF sz = 0
    THEN [iter |-> zst_shrink(it, offset), ret |-> it.ptr]
    ELSE LET e == it.end - offset * sz
         IN  [iter |-> [it EXCEPT !.end = e % AddrSpace,
                                  !.ub = @ \/ ~in_bounds(h, sz, e)],
              ret |-> e % AddrSpace]

\* & *self.post_inc_start(1) and & *self.pre_dec_end(1): the reference is
\* the address it holds.
next_unchecked(h, sz, it) ==
    LET r == post_inc_start(h, sz, it, 1)
    IN  [iter |-> [r.iter EXCEPT !.ub = @ \/ deref_ub(h, sz, r.ret)],
         ret |-> <<r.ret>>]

\* next_back_unchecked taking its element at the front.
next_back_unchecked_at_front(h, sz, it) == next_unchecked(h, sz, it)

next_back_unchecked(h, sz, it) ==
    LET r == pre_dec_end(h, sz, it, 1)
    IN  [iter |-> [r.iter EXCEPT !.ub = @ \/ deref_ub(h, sz, r.ret)],
         ret |-> <<r.ret>>]

iter_next(h, sz, it) ==
    IF iter_is_empty(it)
    THEN [iter |-> it, ret |-> None]
    ELSE next_unchecked(h, sz, it)

iter_next_back(h, sz, it) ==
    IF iter_is_empty(it)
    THEN [iter |-> it, ret |-> None]
    ELSE next_back_unchecked(h, sz, it)

\* The out-of-range arm of nth() leaving the cursors where they are.
nth_exhaust_stays(sz, it) == it

\* The out-of-range arm of nth() moving ptr one element past end.
nth_exhaust_past_end(sz, it) ==
    IF sz = 0
    THEN [it EXCEPT !.end = it.ptr]
    ELSE [it EXCEPT !.ptr = it.end + sz]

\* The out-of-range arm of nth(): the iterator is made empty.
nth_exhaust(sz, it) ==
    IF sz = 0
    THEN [it EXCEPT !.end = it.ptr]
    ELSE [it EXCEPT !.ptr = it.end, !.ub = @ \/ it.end = 0]

iter_nth(h, sz, it, n) ==
    LET r == IF n >= len(sz, it)
             THEN [iter |-> nth_exhaust(sz, it), ret |-> None]
             ELSE next_unchecked(h, sz,
                                 post_inc_start(h, sz, it, as_isize(n)).iter)
    IN  [r EXCEPT !.iter.ub = @ \/ len_ub(sz, it)]

iter_nth_back(h, sz, it, n) ==
    LET r == IF n >= len(sz, it)
             THEN [iter |-> [it EXCEPT !.end = it.ptr], ret |-> None]
             ELSE next_back_unchecked(h, sz,
                                      pre_dec_end(h, sz, it, as_isize(n)).iter)
    IN  [r EXCEPT !.iter.ub = @ \/ len_ub(sz, it)]

\* Result<(), usize>
Ok == <<"Ok">>
Err(k) == <<"Err", k>>

\* The number of steps advance_by(n) takes without cmp::min: all n of them.
advance_amount_unclamped(l, n) == n

\* The number of steps advance_by(n) and advance_back_by(n) take.
advance_amount(l, n) == Min(l, n)

\* advance_result reporting what the call fell short by.
advance_result_shortfall(advance, n) ==
    IF advance = n THEN Ok ELSE Err(n - advance)

\* What advance_by(n) and advance_back_by(n) return after advance steps.
advance_result(advance, n) == IF advance = n THEN Ok ELSE Err(advance)

advance_by(h, sz, it, n) ==
    LET advance == advance_amount(len(sz, it), n)
        r == post_inc_start(h, sz, it, as_isize(advance))
    IN  [iter |-> [r.iter EXCEPT !.ub = @ \/ len_ub(sz, it)],
         ret |-> advance_result(advance, n)]

advance_back_by(h, sz, it, n) ==
    LET advance == advance_amount(len(sz, it), n)
        r == pre_dec_end(h, sz, it, as_isize(advance))
    IN  [iter |-> [r.iter EXCEPT !.ub = @ \/ len_ub(sz, it)],
         ret |-> advance_result(advance, n)]

(***************************************************************************)
(* The cursor-pair iterator as a state machine over the same variables:    *)
(* haystack is the slice, cfg the size of its elements, iter the iterator, *)
(* op the last call with its argument, front and back the references the   *)
(* calls at the front and at the back returned.  IterSpec makes any call,  *)
(* IterStepSpec only next() and next_back().                               *)
(***************************************************************************)
\* The arguments the calls are made with: the small counts, the least usize
\* that is negative as an isize, and the greatest usize.
Usizes == (0 .. MaxElems) \cup {AddrSpace \div 2, AddrSpace - 1}

IterInit ==
    /\ wrapper = "SliceIter"
    /\ cfg \in ElemSizes
    /\ haystack \in Buffers(cfg)
    /\ iter = iter_new(haystack, cfg)
    /\ limit = 0
    /\ count = 0
    /\ op = <<"new">>
    /\ ret = None
    /\ front = <<>>
    /\ back = <<>>
    /\ exhausted = FALSE
    /\ finish_called = FALSE
    /\ prev = snapshot

\* A call op that returned r; refs is the history it adds a reference to.
IterCall(o, r, refs) ==
    /\ iter' = r.iter
    /\ ret' = r.ret
    /\ op' = o
    /\ front' = IF refs = "front" THEN Push(front, r.ret) ELSE front
    /\ back' = IF refs = "back" THEN Push(back, r.ret) ELSE back
    /\ exhausted' = (exhausted \/ (refs # "none" /\ r.ret = None))
    /\ prev' = snapshot
    /\ UNCHANGED <<haystack, cfg, wrapper, limit, count, finish_called>>

CallIterNext ==
    /\ wrapper = "SliceIter"
    /\ IterCall(<<"next">>, iter_next(haystack, cfg, iter), "front")

CallIterNextBack ==
    /\ wrapper = "SliceIter"
    /\ IterCall(<<"next_back">>, iter_next_back(haystack, cfg, iter), "back")

CallNth ==
    /\ wrapper = "SliceIter"
    /\ \E n \in Usizes :
         IterCall(<<"nth", n>>, iter_nth(haystack, cfg, iter, n), "front")

CallNthBack ==
    /\ wrapper = "SliceIter"
    /\ \E n \in Usizes :
         IterCall(<<"nth_back", n>>, iter_nth_back(haystack, cfg, iter, n),
                  "back")

CallAdvanceBy ==
    /\ wrapper = "SliceIter"
    /\ \E n \in Usizes :
         IterCall(<<"advance_by", n>>, advance_by(haystack, cfg, iter, n),
                  "none")

CallAdvanceBackBy ==
    /\ wrapper = "SliceIter"
    /\ \E n \in Usizes :
         IterCall(<<"advance_back_by", n>>,
                  advance_back_by(haystack, cfg, iter, n), "none")

IterNext ==
    \/ CallIterNext \/ CallIterNextBack
    \/ CallNth \/ CallNthBack
    \/ CallAdvanceBy \/ CallAdvanceBackBy

IterSpec == IterInit /\ [][IterNext]_vars

IterStepNext == CallIterNext \/ CallIterNextBack

IterStepSpec == IterInit /\ [][IterStepNext]_vars

(***************************************************************************)
(* Chars, CharIndices and EncodeUtf16 of library/core/src/str/iter.rs.     *)
(* A string is the sequence of its UTF-8 bytes; the byte iterator Chars    *)
(* holds is the pair of offsets ptr and end of the bytes it has left; a    *)
(* char is its code point.  Lengths are LenBits wide.                      *)
(***************************************************************************)
LenBits == 4
MaxBytes == 7
LenSpace == 2 ^ LenBits
isize_MAX == LenSpace \div 2 - 1

\* The UTF-8 encodings of 'a', U+00E9, U+697D and U+1D11E: one char of each
\* encoded length.
Utf8Chars ==
    {<<97>>, <<195, 169>>, <<230, 165, 189>>, <<240, 157, 132, 158>>}

\* The strings of exactly n bytes made of these chars.
RECURSIVE StrsOfLen(_)
StrsOfLen(n) ==
    IF n = 0
    THEN {<<>>}
    ELSE UNION {{ch \o t : t \in StrsOfLen(n - Len(ch))} :
                    ch \in {c \in Utf8Chars : Len(c) <= n}}

\* A str is at most isize::MAX bytes long.
Strs == UNION {StrsOfLen(n) : n \in 0 .. Min(MaxBytes, isize_MAX)}

\* next_code_point: decodes the char at the front of the bytes left.
next_code_point(h, it) ==
    IF it.ptr = it.end
    THEN [iter |-> it, ret |-> None]
    ELSE LET x == h[it.ptr + 1]
             y == h[it.ptr + 2] % 64
             z == h[it.ptr + 3] % 64
             w == h[it.ptr + 4] % 64
         IN  IF x < 128
             THEN [iter |-> [it EXCEPT !.ptr = @ + 1], ret |-> <<x>>]
             ELSE IF x < 224
             THEN [iter |-> [it EXCEPT !.ptr = @ + 2],
                   ret |-> <<(x % 32) * 64 + y>>]
             ELSE IF x < 240
             THEN [iter |-> [it EXCEPT !.ptr = @ + 3],
                   ret |-> <<(x % 32) * 4096 + y * 64 + z>>]
             ELSE [iter |-> [it EXCEPT !.ptr = @ + 4],
                   ret |-> <<(x % 8) * 262144 + y * 4096 + z * 64 + w>>]

\* utf8_is_cont_byte
utf8_is_cont_byte(b) == 128 <= b /\ b < 192

\* next_code_point_reverse: decodes the char at the back of the bytes left.
next_code_point_reverse(h, it) ==
    IF it.ptr = it.end
    THEN [iter |-> it, ret |-> None]
    ELSE LET w == h[it.end]
         IN  IF w < 128
             THEN [iter |-> [it EXCEPT !.end = @ - 1], ret |-> <<w>>]
             ELSE LET z == h[it.end - 1]
                  IN  IF ~utf8_is_cont_byte(z)
                      THEN [iter |-> [it EXCEPT !.end = @ - 2],
                            ret |-> <<(z % 32) * 64 + (w % 64)>>]
                      ELSE LET y == h[it.end - 2]
                           IN  IF ~utf8_is_cont_byte(y)
                               THEN [iter |-> [it EXCEPT !.end = @ - 3],
                                     ret |-> <<(y % 16) * 4096 + (z % 64) * 64
                                                 + (w % 64)>>]
                               ELSE LET x == h[it.end - 3]
                                    IN  [iter |-> [it EXCEPT !.end = @ - 4],
                                         ret |-> <<(x % 8) * 262144
                                                     + (y % 64) * 4096
                                                     + (z % 64) * 64 + (w % 64)>>]

\* str::chars(): the byte iterator over the whole string.
chars(h) == [ptr |-> 0, end |-> Len(h)]

\* slice::Iter<u8>::len
bytes_len(it) == it.end - it.ptr

chars_next(h, it) == next_code_point(h, it)
chars_next_back(h, it) == next_code_point_reverse(h, it)

\* Chars::size_hint taking a char for at most 3 bytes.
chars_size_hint_three_bytes(it) ==
    LET n == bytes_len(it)
    IN  <<((n + 2) % LenSpace) \div 3, n>>

\* Chars::size_hint: <<lower, upper>>.
chars_size_hint(it) ==
    LET n == bytes_len(it)
    IN  <<((n + 3) % LenSpace) \div 4, n>>

\* str::char_indices()
char_indices(h) == [front_offset |-> 0, iter |-> chars(h)]

\* CharIndices::next: Some(<<index, ch>>).
char_indices_next(h, ci) ==
    LET pre_len == bytes_len(ci.iter)
        r == chars_next(h, ci.iter)
    IN  IF r.ret = None
        THEN [iter |-> [ci EXCEPT !.iter = r.iter], ret |-> None]
        ELSE [iter |-> [front_offset |->
                            (ci.front_offset + (pre_len - bytes_len(r.iter)))
                                % LenSpace,
                        iter |-> r.iter],
              ret |-> <<ci.front_offset, r.ret[1]>>]

\* CharIndices::next_back
char_indices_next_back(h, ci) ==
    LET r == chars_next_back(h, ci.iter)
    IN  [iter |-> [ci EXCEPT !.iter = r.iter],
         ret |-> IF r.ret = None
                 THEN None
                 ELSE <<(ci.front_offset + bytes_len(r.iter)) % LenSpace,
                        r.ret[1]>>]

\* CharIndices::offset
offset(ci) == ci.front_offset

\* char::encode_utf16: the one or two u16 of a code point.
encode_utf16(ch) ==
    IF ch < 65536
    THEN <<ch>>
    ELSE <<55296 + ((ch - 65536) \div 1024), 56320 + ((ch - 65536) % 1024)>>

\* str::encode_utf16()
str_encode_utf16(h) == [chars |-> chars(h), extra |-> 0]

\* EncodeUtf16::next: Some(<<u16>>).
encode_utf16_next(h, e) ==
    IF e.extra # 0
    THEN [iter |-> [e EXCEPT !.extra = 0], ret |-> <<e.extra>>]
    ELSE LET r == chars_next(h, e.chars)
         IN  IF r.ret = None
             THEN [iter |-> [e EXCEPT !.chars = r.iter], ret |-> None]
             ELSE LET buf == encode_utf16(r.ret[1])
                  IN  [iter |-> [chars |-> r.iter,
                                 extra |-> IF Len(buf) = 2 THEN buf[2] ELSE 0],
                       ret |-> <<buf[1]>>]

\* usize::checked_mul: {} is None.
checked_mul(a, b) == IF a * b < LenSpace THEN {a * b} ELSE {}

\* EncodeUtf16::size_hint: <<lower, upper>>, upper a set of at most one.
encode_utf16_size_hint(e) ==
    LET hint == chars_size_hint(e.chars)
    IN  <<hint[1], checked_mul(hint[2], 2)>>

(***************************************************************************)
(* The char iterators as a state machine over the same variables: haystack *)
(* is the string, wrapper the iterator made from it, iter its fields,      *)
(* front and back what next() and next_back() returned.                    *)
(***************************************************************************)
CharWrappers == {"Chars", "CharIndices", "EncodeUtf16"}

CharsInit ==
    /\ wrapper \in CharWrappers
    /\ cfg = "str"
    /\ haystack \in Strs
    /\ iter = IF wrapper = "Chars" THEN chars(haystack)
              ELSE IF wrapper = "CharIndices" THEN char_indices(haystack)
              ELSE str_encode_utf16(haystack)
    /\ limit = 0
    /\ count = 0
    /\ op = <<"new">>
    /\ ret = None
    /\ front = <<>>
    /\ back = <<>>
    /\ exhausted = FALSE
    /\ finish_called = FALSE
    /\ prev = snapshot

CallCharsNext ==
    /\ wrapper = "Chars"
    /\ IterCall(<<"next">>, chars_next(haystack, iter), "front")

CallCharsNextBack ==
    /\ wrapper = "Chars"
    /\ IterCall(<<"next_back">>, chars_next_back(haystack, iter), "back")

CallCharIndicesNext ==
    /\ wrapper = "CharIndices"
    /\ IterCall(<<"next">>, char_indices_next(haystack, iter), "front")

CallCharIndicesNextBack ==
    /\ wrapper = "CharIndices"
    /\ IterCall(<<"next_back">>, char_indices_next_back(haystack, iter), "back")

CallEncodeUtf16Next ==
    /\ wrapper = "EncodeUtf16"
    /\ IterCall(<<"next">>, encode_utf16_next(haystack, iter), "front")

CharsNext ==
    \/ CallCharsNext \/ CallCharsNextBack
    \/ CallCharIndicesNext \/ CallCharIndicesNextBack
    \/ CallEncodeUtf16Next

CharsSpec == CharsInit /\ [][CharsNext]_vars

(***************************************************************************)
(* MatchesInternal and MatchIndicesInternal of library/core/src/str/       *)
(* iter.rs: the direct match enumerators.  Each is its searcher alone.     *)
(* Two patterns are searched for: the character Sep, and the empty string, *)
(* whose matches are the empty ranges at every offset of the haystack.     *)
(***************************************************************************)
Patterns == {"char", "empty"}

\* The searcher of the empty pattern: the matches (i, i) it has left are
\* those with finger <= i <= finger_back.
empty_next_match(h, s) ==
    IF s.finger > s.finger_back
    THEN [matcher |-> s, ret |-> None]
    ELSE [matcher |-> [s EXCEPT !.finger = @ + 1],
          ret |-> <<s.finger, s.finger>>]

empty_next_match_back(h, s) ==
    IF s.finger > s.finger_back
    THEN [matcher |-> s, ret |-> None]
    ELSE [matcher |-> [s EXCEPT !.finger_back = @ - 1],
          ret |-> <<s.finger_back, s.finger_back>>]

\* Searcher::next_match and ReverseSearcher::next_match_back of pattern p.
pattern_next_match(p, h, s) ==
    IF p = "empty" THEN empty_next_match(h, s) ELSE next_match(h, s)

pattern_next_match_back(p, h, s) ==
    IF p = "empty" THEN empty_next_match_back(h, s) ELSE next_match_back(h, s)

\* MatchesInternal(searcher) and MatchIndicesInternal(searcher).
matches_new(h) == [searcher |-> into_searcher(h)]

\* MatchesInternal::next dropping the matches that are empty.
matches_next_nonempty(h, p, m) ==
    LET q == pattern_next_match(p, h, m.searcher)
    IN  [iter |-> [searcher |-> q.matcher],
         ret |-> IF q.ret = None \/ is_empty(q.ret)
                 THEN None
                 ELSE Some(q.ret[1], q.ret[2])]

\* MatchesInternal::next: haystack[a..b] as the offsets <<a, b>>.
matches_next(h, p, m) ==
    LET q == pattern_next_match(p, h, m.searcher)
    IN  [iter |-> [searcher |-> q.matcher],
         ret |-> IF q.ret = None THEN None ELSE Some(q.ret[1], q.ret[2])]

matches_next_back(h, p, m) ==
    LET q == pattern_next_match_back(p, h, m.searcher)
    IN  [iter |-> [searcher |-> q.matcher],
         ret |-> IF q.ret = None THEN None ELSE Some(q.ret[1], q.ret[2])]

\* MatchIndicesInternal::next: (start, haystack[start..end]).
match_indices_next(h, p, m) ==
    LET q == pattern_next_match(p, h, m.searcher)
    IN  [iter |-> [searcher |-> q.matcher],
         ret |-> IF q.ret = None
                 THEN None
                 ELSE <<q.ret[1], Some(q.ret[1], q.ret[2])>>]

match_indices_next_back(h, p, m) ==
    LET q == pattern_next_match_back(p, h, m.searcher)
    IN  [iter |-> [searcher |-> q.matcher],
         ret |-> IF q.ret = None
                 THEN None
                 ELSE <<q.ret[1], Some(q.ret[1], q.ret[2])>>]

MatchInit ==
    /\ wrapper \in {"Matches", "MatchIndices"}
    /\ cfg \in Patterns
    /\ haystack \in Haystacks
    /\ iter = matches_new(haystack)
    /\ limit = 0
    /\ count = 0
    /\ op = <<"new">>
    /\ ret = None
    /\ front = <<>>
    /\ back = <<>>
    /\ exhausted = FALSE
    /\ finish_called = FALSE
    /\ prev = snapshot

CallMatchesNext ==
    /\ wrapper = "Matches"
    /\ IterCall(<<"next">>, matches_next(haystack, cfg, iter), "front")

CallMatchesNextBack ==
    /\ wrapper = "Matches"
    /\ IterCall(<<"next_back">>, matches_next_back(haystack, cfg, iter), "back")

CallMatchIndicesNext ==
    /\ wrapper = "MatchIndices"
    /\ IterCall(<<"next">>, match_indices_next(haystack, cfg, iter), "front")

CallMatchIndicesNextBack ==
    /\ wrapper = "MatchIndices"
    /\ IterCall(<<"next_back">>, match_indices_next_back(haystack, cfg, iter),
                "back")

MatchNext ==
    \/ CallMatchesNext \/ CallMatchesNextBack
    \/ CallMatchIndicesNext \/ CallMatchIndicesNextBack

MatchSpec == MatchInit /\ [][MatchNext]_vars

(***************************************************************************)
(* The two expansions of split_iter! driven side by side: iter.mut is the  *)
(* splitter over &mut [T], iter.shared the one over &[T], built over the   *)
(* same slice with the same predicate and given the same calls.  ret,      *)
(* front and back record what the mut_ref splitter returned; a piece       *)
(* returned by finish() is recorded in front.                              *)
(***************************************************************************)
SliceMutInit ==
    /\ haystack \in Haystacks
    /\ wrapper = "SliceMut"
    /\ cfg \in SliceConfigs
    /\ limit = 0
    /\ iter = [mut |-> slice_new(haystack), shared |-> slice_new(haystack)]
    /\ count = 0
    /\ op = "new"
    /\ ret = None
    /\ front = <<>>
    /\ back = <<>>
    /\ exhausted = FALSE
    /\ finish_called = FALSE
    /\ prev = [iter |-> [mut |-> slice_new(haystack),
                         shared |-> slice_new(haystack)],
               count |-> 0, exhausted |-> FALSE, finish_called |-> FALSE]

CallMutNext ==
    /\ wrapper = "SliceMut"
    /\ LET r == slice_next_mut(haystack, cfg, iter.mut)
           t == slice_next(haystack, cfg, iter.shared)
       IN  /\ iter' = [mut |-> r.iter, shared |-> t.iter]
           /\ ret' = r.ret
           /\ front' = Push(front, r.ret)
           /\ exhausted' = (exhausted \/ r.ret = None)
    /\ op' = "next"
    /\ prev' = snapshot
    /\ UNCHANGED <<haystack, cfg, wrapper, limit, count, back, finish_called>>

CallMutNextBack ==
    /\ wrapper = "SliceMut"
    /\ LET r == slice_next_back_mut(haystack, cfg, iter.mut)
           t == slice_next_back(haystack, cfg, iter.shared)
       IN  /\ iter' = [mut |-> r.iter, shared |-> t.iter]
           /\ ret' = r.ret
           /\ back' = Push(back, r.ret)
           /\ exhausted' = (exhausted \/ r.ret = None)
    /\ op' = "next_back"
    /\ prev' = snapshot
    /\ UNCHANGED <<haystack, cfg, wrapper, limit, count, front, finish_called>>

CallMutFinish ==
    /\ wrapper = "SliceMut"
    /\ LET r == slice_finish_mut(haystack, cfg, iter.mut)
           t == slice_finish(haystack, cfg, iter.shared)
       IN  /\ iter' = [mut |-> r.iter, shared |-> t.iter]
           /\ ret' = r.ret
           /\ front' = Push(front, r.ret)
    /\ op' = "finish"
    /\ finish_called' = TRUE
    /\ prev' = snapshot
    /\ UNCHANGED <<haystack, cfg, wrapper, limit, count, back, exhausted>>

SliceMutNext == CallMutNext \/ CallMutNextBack \/ CallMutFinish

SliceMutSpec == SliceMutInit /\ [][SliceMutNext]_vars

(***************************************************************************)
(* position and rposition of iterator!, one turn of their `while let` loop *)
(* at a time; the predicate is the caller's closure and may answer         *)
(* anything for any element.  While a call is in its loop limit holds its  *)
(* n, count its counter i, front (position) or back (rposition) the        *)
(* elements it has taken so far, each with the predicate's answer, and     *)
(* prev the state the call found.  assume(cond) with cond false is         *)
(* undefined behaviour, recorded in iter.ub.                               *)
(***************************************************************************)
\* unsafe { assume(i < n) }
assume(it, cond) == [it EXCEPT !.ub = @ \/ ~cond]

\* let n = len!(self); let mut i = 0;
position_enter(sz, it) ==
    [iter |-> [it EXCEPT !.ub = @ \/ len_ub(sz, it)], n |-> len(sz, it), i |-> 0]

\* let n = len!(self); let mut i = n;
rposition_enter(sz, it) ==
    [iter |-> [it EXCEPT !.ub = @ \/ len_ub(sz, it)],
     n |-> len(sz, it), i |-> len(sz, it)]

\* One turn of position's loop, the predicate answering b: done tells
\* whether the call returns, ret what it returns, taken the element tested.
position_turn(h, sz, it, i, n, b) ==
    LET r == iter_next(h, sz, it)
    IN  IF r.ret = None
        THEN [iter |-> r.iter, i |-> i, done |-> TRUE, ret |-> None,
              taken |-> None]
        ELSE IF b
        THEN [iter |-> assume(r.iter, i < n), i |-> i, done |-> TRUE,
              ret |-> <<i>>, taken |-> <<r.ret[1], b>>]
        ELSE [iter |-> r.iter, i |-> (i + 1) % AddrSpace, done |-> FALSE,
              ret |-> None, taken |-> <<r.ret[1], b>>]

\* rposition_turn decrementing its counter after the test instead of before.
rposition_turn_late_decrement(h, sz, it, i, n, b) ==
    LET r == iter_next_back(h, sz, it)
    IN  IF r.ret = None
        THEN [iter |-> r.iter, i |-> i, done |-> TRUE, ret |-> None,
              taken |-> None]
        ELSE IF b
             THEN [iter |-> assume(r.iter, i < n), i |-> i, done |-> TRUE,
                   ret |-> <<i>>, taken |-> <<r.ret[1], b>>]
             ELSE [iter |-> r.iter, i |-> (i - 1) % AddrSpace, done |-> FALSE,
                   ret |-> None, taken |-> <<r.ret[1], b>>]

\* One turn of rposition's loop, the predicate answering b.
rposition_turn(h, sz, it, i, n, b) ==
    LET r == iter_next_back(h, sz, it)
        i1 == (i - 1) % AddrSpace
    IN  IF r.ret = None
        THEN [iter |-> r.iter, i |-> i, done |-> TRUE, ret |-> None,
              taken |-> None]
        ELSE IF b
             THEN [iter |-> assume(r.iter, i1 < n), i |-> i1, done |-> TRUE,
                   ret |-> <<i1>>, taken |-> <<r.ret[1], b>>]
             ELSE [iter |-> r.iter, i |-> i1, done |-> FALSE,
                   ret |-> None, taken |-> <<r.ret[1], b>>]

\* No position or rposition call is in its loop.
Idle == op[Len(op)] # "loop"

IdleNext == Idle /\ CallIterNext

IdleNextBack == Idle /\ CallIterNextBack

PositionEnter ==
    /\ wrapper = "SliceIter" /\ Idle
    /\ LET e == position_enter(cfg, iter)
       IN  /\ iter' = e.iter
           /\ limit' = e.n
           /\ count' = e.i
    /\ op' = <<"position", "loop">>
    /\ ret' = None
    /\ front' = <<>>
    /\ back' = <<>>
    /\ prev' = snapshot
    /\ UNCHANGED <<haystack, cfg, wrapper, exhausted, finish_called>>

PositionTurn ==
    /\ wrapper = "SliceIter" /\ op = <<"position", "loop">>
    /\ \E b \in BOOLEAN :
         LET t == position_turn(haystack, cfg, iter, count, limit, b)
         IN  /\ iter' = t.iter
             /\ count' = t.i
             /\ ret' = t.ret
             /\ front' = Push(front, t.taken)
             /\ op' = <<"position", IF t.done THEN "done" ELSE "loop">>
    /\ UNCHANGED <<haystack, cfg, wrapper, limit, back, exhausted,
                   finish_called, prev>>

RPositionEnter ==
    /\ wrapper = "SliceIter" /\ Idle
    /\ LET e == rposition_enter(cfg, iter)
       IN  /\ iter' = e.iter
           /\ limit' = e.n
           /\ count' = e.i
    /\ op' = <<"rposition", "loop">>
    /\ ret' = None
    /\ front' = <<>>
    /\ back' = <<>>
    /\ prev' = snapshot
    /\ UNCHANGED <<haystack, cfg, wrapper, exhausted, finish_called>>

RPositionTurn ==
    /\ wrapper = "SliceIter" /\ op = <<"rposition", "loop">>
    /\ \E b \in BOOLEAN :
         LET t == rposition_turn(haystack, cfg, iter, count, limit, b)
         IN  /\ iter' = t.iter
             /\ count' = t.i
             /\ ret' = t.ret
             /\ back' = Push(back, t.taken)
             /\ op' = <<"rposition", IF t.done THEN "done" ELSE "loop">>
    /\ UNCHANGED <<haystack, cfg, wrapper, limit, front, exhausted,
                   finish_called, prev>>

PositionNext ==
    \/ IdleNext \/ IdleNextBack
    \/ PositionEnter \/ PositionTurn
    \/ RPositionEnter \/ RPositionTurn

PositionSpec == IterInit /\ [][PositionNext]_vars

(***************************************************************************)
(* The cursor-pair iterator over zero-sized elements, for a slice at any   *)
(* non-null address and the jumping calls made with any usize.  The        *)
(* references returned are all the same address; front and back are not    *)
(* kept.                                                                   *)
(***************************************************************************)
\* The addresses a slice of zero-sized elements can lie at: all but null.
ZstAddrs == 1 .. (AddrSpace - 1)

\* Every usize.
ZstSteps == 0 .. (AddrSpace - 1)

\* The iterator of a slice of zero-sized elements at address a.
zst_iter_new(h, a) == [ptr |-> a, end |-> (a + Len(h)) % AddrSpace, ub |-> FALSE]

ZstInit ==
    /\ wrapper = "SliceIter"
    /\ cfg = 0
    /\ haystack \in Buffers(0)
    /\ \E a \in ZstAddrs : iter = zst_iter_new(haystack, a)
    /\ limit = 0
    /\ count = 0
    /\ op = <<"new">>
    /\ ret = None
    /\ front = <<>>
    /\ back = <<>>
    /\ exhausted = FALSE
    /\ finish_called = FALSE
    /\ prev = snapshot

ZstNth ==
    /\ wrapper = "SliceIter"
    /\ \E n \in ZstSteps :
         IterCall(<<"nth", n>>, iter_nth(haystack, cfg, iter, n), "none")

ZstNthBack ==
    /\ wrapper = "SliceIter"
    /\ \E n \in ZstSteps :
         IterCall(<<"nth_back", n>>, iter_nth_back(haystack, cfg, iter, n),
                  "none")

ZstAdvanceBy ==
    /\ wrapper = "SliceIter"
    /\ \E n \in ZstSteps :
         IterCall(<<"advance_by", n>>, advance_by(haystack, cfg, iter, n),
                  "none")

ZstAdvanceBackBy ==
    /\ wrapper = "SliceIter"
    /\ \E n \in ZstSteps :
         IterCall(<<"advance_back_by", n>>,
                  advance_back_by(haystack, cfg, iter, n), "none")

ZstNext == ZstNth \/ ZstNthBack \/ ZstAdvanceBy \/ ZstAdvanceBackBy

ZstSpec == ZstInit /\ [][ZstNext]_vars

(***************************************************************************)
(* Exhaustive iteration: the pieces of calling one operation until it      *)
(* returns None.                                                           *)
(***************************************************************************)
Reverse(s) == [i \in 1..Len(s) |-> s[Len(s) + 1 - i]]

RECURSIVE collect_next(_, _, _)
collect_next(h, c, m) ==
    LET r == next(h, c, m)
    IN  IF IsSome(r.ret) THEN <<r.ret>> \o collect_next(h, c, r.iter) ELSE <<>>

RECURSIVE collect_next_back(_, _, _)
collect_next_back(h, c, m) ==
    LET r == next_back(h, c, m)
    IN  IF IsSome(r.ret) THEN <<r.ret>> \o collect_next_back(h, c, r.iter) ELSE <<>>

\* The pieces the iterator a limiter wraps yields when it is not limited.
collect_inner(w, h, c, m) ==
    IF w = "RN" THEN collect_next_back(h, c, m) ELSE collect_next(h, c, m)

RECURSIVE collect_n(_, _, _, _, _)
collect_n(w, h, c, m, n) ==
    LET r == n_next(w, h, c, m, n)
    IN  IF IsSome(r.ret)
        THEN <<r.ret>> \o collect_n(w, h, c, r.iter, r.count)
        ELSE <<>>

\* The pieces of the slice splitter under next() alone and next_back() alone.
RECURSIVE slice_collect_next(_, _, _)
slice_collect_next(h, c, m) ==
    LET r == slice_next(h, c, m)
    IN  IF IsSome(r.ret) THEN <<r.ret>> \o slice_collect_next(h, c, r.iter) ELSE <<>>

RECURSIVE slice_collect_next_back(_, _, _)
slice_collect_next_back(h, c, m) ==
    LET r == slice_next_back(h, c, m)
    IN  IF IsSome(r.ret)
        THEN <<r.ret>> \o slice_collect_next_back(h, c, r.iter)
        ELSE <<>>

fresh == new(haystack, cfg)

(***************************************************************************)
(* C1: with a double-ended searcher, in every configuration, the pieces of *)
(* calling only next() until None are the reverse of the pieces of calling *)
(* only next_back() until None.                                            *)
(***************************************************************************)
C1_ForwardIsReverseOfBackward ==
    /\ cfg \in Configs =>
         collect_next(haystack, cfg, fresh)
             = Reverse(collect_next_back(haystack, cfg, fresh))
    /\ (wrapper = "Iter" /\ exhausted /\ ~finish_called /\ back = <<>>)
         => front = Reverse(collect_next_back(haystack, cfg, fresh))
    /\ (wrapper = "Iter" /\ exhausted /\ ~finish_called /\ front = <<>>)
         => back = Reverse(collect_next(haystack, cfg, fresh))

\* A forward run to exhaustion of a configuration with both skip flags that
\* dropped an empty piece at each end and still yielded two pieces.
C1_Witness ==
    /\ wrapper = "Iter" /\ cfg = "SplitEnds"
    /\ exhausted /\ ~finish_called /\ back = <<>>
    /\ Len(front) = 2
    /\ Len(collect_next(haystack, "Split", new(haystack, "Split"))) = 4

(***************************************************************************)
(* C2: a limiter built with limit N yields exactly min(N, natural piece    *)
(* count) pieces, the natural count being that of the wrapped iterator.    *)
(***************************************************************************)
natural_piece_count == Len(collect_inner(wrapper, haystack, cfg, fresh))

C2_LimiterYieldsMinOfLimitAndNatural ==
    (wrapper \in {"N", "RN"} /\ count = 0)
        => Len(front) = Min(limit, natural_piece_count)

\* The limiter found count = 1 and its machine unfinished, and returned a piece.
Capped ==
    /\ wrapper \in {"N", "RN"} /\ op = "n_next"
    /\ prev.count = 1 /\ ~prev.iter.finished /\ IsSome(ret)

\* The separator characters strictly inside the piece r.
SepsInside(h, r) == {i \in r[1] .. (r[2] - 1) : h[i + 1] = Sep}

(***************************************************************************)
(* C3: a limiter's next() with count = 0 returns None and changes nothing; *)
(* with count = 1 it sets count to 0 and returns the machine's finish(),   *)
(* the whole haystack[start..end] whatever separators it holds, without    *)
(* searching; with count >= 2 it decrements count by one and returns the   *)
(* inner iterator's next().                                                *)
(***************************************************************************)
C3_LimiterNextByCount ==
    (wrapper \in {"N", "RN"} /\ op = "n_next") =>
        /\ prev.count = 0 =>
              ret = None /\ iter = prev.iter /\ count = 0
        /\ prev.count = 1 =>
              /\ count = 0
              /\ ret = finish(haystack, cfg, prev.iter).ret
              /\ IsSome(ret) => ret = <<prev.iter.start, prev.iter.end>>
              /\ ~prev.iter.finished => IsSome(ret) \/ prev.iter.start = prev.iter.end
              /\ iter.matcher = prev.iter.matcher
              /\ iter.start = prev.iter.start /\ iter.end = prev.iter.end
        /\ prev.count >= 2 =>
              /\ count = prev.count - 1
              /\ ret = inner_next(wrapper, haystack, cfg, prev.iter).ret
              /\ iter = inner_next(wrapper, haystack, cfg, prev.iter).iter

\* The count = 1 step returned a remainder that holds a separator (after
\* a count >= 2 step had returned a piece).
C3_Witness ==
    /\ Capped /\ limit >= 2 /\ Len(front) = 2
    /\ SepsInside(haystack, ret) # {}

(***************************************************************************)
(* C4: at any time a limiter can yield at most count more pieces (the      *)
(* upper bound of size_hint), count never increases, and the pieces        *)
(* yielded so far plus count never exceed the limit.                       *)
(***************************************************************************)
C4_CountBoundsRemainingPieces ==
    wrapper \in {"N", "RN"} =>
        /\ Len(collect_n(wrapper, haystack, cfg, iter, count)) <= count
        /\ count <= prev.count
        /\ Len(front) + count <= limit

\* The limit was reached although the haystack holds more separators.
C4_Witness ==
    /\ wrapper \in {"N", "RN"} /\ count = 0
    /\ limit >= 2 /\ Len(front) = limit
    /\ natural_piece_count > limit

(***************************************************************************)
(* C5: the final piece of a capped limiter over a separator-excluding      *)
(* split is the concatenation, separators included, of the pieces the      *)
(* unlimited split would have yielded from there on.                       *)
(***************************************************************************)
SeparatorExcluding == {"Split", "SplitTerminator", "SplitInitiator", "SplitEnds"}

\* Pieces in haystack order, joined with the text between neighbours.
RECURSIVE Join(_, _)
Join(h, ps) ==
    IF ps = <<>> THEN <<>>
    ELSE IF Len(ps) = 1 THEN get_unchecked(h, ps[1])
    ELSE get_unchecked(h, ps[1]) \o get_unchecked(h, <<ps[1][2], ps[2][1]>>)
             \o Join(h, Tail(ps))

InHaystackOrder(w, ps) == IF w = "RN" THEN Reverse(ps) ELSE ps

\* The machine as the capping step found it.
before_cap == prev.iter

\* As stated: against the unlimited split of the same configuration.
C5_FinalPieceIsRestOfUnlimitedSplit ==
    (Capped /\ cfg \in SeparatorExcluding) =>
        get_unchecked(haystack, ret)
            = Join(haystack, InHaystackOrder(wrapper,
                   collect_inner(wrapper, haystack, cfg, before_cap)))

\* Amended: against the exclusive split (no skip flag) from the same point.
without_skips(m) ==
    [m EXCEPT !.skip_leading_empty = FALSE, !.skip_trailing_empty = FALSE]

C5_FinalPieceIsRestOfExclusiveSplit ==
    (Capped /\ cfg \in SeparatorExcluding) =>
        get_unchecked(haystack, ret)
            = Join(haystack, InHaystackOrder(wrapper,
                   collect_inner(wrapper, haystack, "Split", without_skips(before_cap))))

\* A terminator split capped on a remainder that ends with a separator.
C5_Witness ==
    /\ Capped /\ cfg = "SplitTerminator" /\ wrapper = "N"
    /\ Len(front) = 2
    /\ haystack[Len(haystack)] = Sep
    /\ Len(get_unchecked(haystack, ret)) = 2

(***************************************************************************)
(* C6: the pieces of the exclusive split, interleaved in order with the    *)
(* separators the searcher matched, are the haystack.                      *)
(***************************************************************************)
RECURSIVE collect_matches(_, _)
collect_matches(h, s) ==
    LET q == next_match(h, s)
    IN  IF IsSome(q.ret) THEN <<q.ret>> \o collect_matches(h, q.matcher) ELSE <<>>

RECURSIVE Interleave(_, _, _)
Interleave(h, ps, seps) ==
    IF ps = <<>> THEN <<>>
    ELSE get_unchecked(h, ps[1])
         \o (IF seps = <<>> THEN <<>>
             ELSE get_unchecked(h, seps[1]) \o Interleave(h, Tail(ps), Tail(seps)))

C6_ExclusivePiecesAndSeparatorsRebuildHaystack ==
    cfg = "Split" =>
        LET ps == collect_next(haystack, cfg, fresh)
            seps == collect_matches(haystack, into_searcher(haystack))
        IN  /\ Len(ps) = Len(seps) + 1
            /\ Interleave(haystack, ps, seps) = haystack
            /\ (wrapper = "Iter" /\ exhausted /\ ~finish_called /\ back = <<>>)
                  => Interleave(haystack, front, seps) = haystack

\* A forward run of the exclusive split that ended after three pieces, one empty.
C6_Witness ==
    /\ wrapper = "Iter" /\ cfg = "Split"
    /\ exhausted /\ ~finish_called /\ back = <<>>
    /\ Len(front) = 3
    /\ \E i \in 1..3 : is_empty(front[i])

(***************************************************************************)
(* C7: once next() or next_back() of a machine, or next() of a limiter,    *)
(* has returned None, every later next(), next_back() and finish() returns *)
(* None and no piece is yielded again.                                     *)
(***************************************************************************)
C7_ExhaustionIsStable ==
    prev.exhausted =>
        /\ ret = None
        /\ exhausted
        /\ op \in {"next", "next_back", "finish", "n_next"}

\* next() returned None and a later next_back() was answered.
C7_Witness ==
    /\ wrapper = "Iter" /\ prev.exhausted /\ op = "next_back"
    /\ Len(front) >= 2 /\ back = <<>> /\ ~finish_called

(***************************************************************************)
(* C8: under any interleaving of next() and next_back() the pieces do not  *)
(* overlap: front pieces ascend, back pieces descend, every front piece    *)
(* ends before every back piece begins, and the cursors never cross.       *)
(***************************************************************************)
Before(p, q) == p[2] <= q[1]

C8_MeetInTheMiddle ==
    wrapper = "Iter" =>
        /\ \A i \in 1..Len(front) : front[i][1] <= front[i][2]
        /\ \A i \in 1..Len(back) : back[i][1] <= back[i][2]
        /\ \A i, j \in 1..Len(front) : i < j => Before(front[i], front[j])
        /\ \A i, j \in 1..Len(back) : i < j => Before(back[j], back[i])
        /\ \A i \in 1..Len(front) : \A j \in 1..Len(back) : Before(front[i], back[j])
        /\ \A i \in 1..Len(front) : \A j \in 1..Len(back) : front[i] # back[j]
        /\ iter.start <= iter.end
        /\ ~iter.finished =>
              /\ \A i \in 1..Len(front) : front[i][2] <= iter.start
              /\ \A j \in 1..Len(back) : iter.end <= back[j][1]

\* Both ends were driven until they met: pieces from each, then None.
C8_Witness ==
    /\ wrapper = "Iter" /\ exhausted /\ ~finish_called
    /\ Len(front) >= 2 /\ Len(back) >= 2

(***************************************************************************)
(* C9: finish() leaves finished set; on a finished machine it returns      *)
(* None; after a finish() every later next(), next_back() and finish()     *)
(* returns None.                                                           *)
(***************************************************************************)
C9_FinishIsSingleShot ==
    /\ finish_called => iter.finished
    /\ (op = "finish" /\ prev.iter.finished) => ret = None
    /\ prev.finish_called => ret = None

\* A finish() that returned the remainder, followed by another call.
C9_Witness ==
    /\ wrapper = "Iter" /\ op = "finish"
    /\ prev.finish_called /\ ~prev.exhausted
    /\ prev.iter.start < prev.iter.end

(***************************************************************************)
(* C10: finish() on an unfinished machine returns haystack[start..end],    *)
(* withheld exactly when the remainder is empty and a skip flag applies.   *)
(***************************************************************************)
FinishOnUnfinished == wrapper = "Iter" /\ op = "finish" /\ ~prev.iter.finished

\* As stated: the policy of the no-match step of next(), the trailing skip alone.
C10_FinishWithholdsAsNextDoes ==
    FinishOnUnfinished =>
        /\ IsSome(ret) => ret = <<prev.iter.start, prev.iter.end>>
        /\ ret = None <=>
              (has_skip_trailing_empty(cfg) /\ prev.iter.start = prev.iter.end)

\* Amended: either skip flag, while it is still set.
C10_FinishWithholdsOnEitherFlag ==
    FinishOnUnfinished =>
        /\ IsSome(ret) => ret = <<prev.iter.start, prev.iter.end>>
        /\ ret = None <=>
              /\ prev.iter.skip_leading_empty \/ prev.iter.skip_trailing_empty
              /\ prev.iter.start = prev.iter.end
        /\ iter.start = prev.iter.start /\ iter.end = prev.iter.end

\* finish() withheld an empty remainder with only the leading flag set,
\* after a next_back() had yielded a piece.
C10_Witness ==
    /\ FinishOnUnfinished /\ ret = None
    /\ cfg = "SplitInitiator" /\ Len(back) = 1 /\ front = <<>>

\* The forward pieces of configuration c on the whole haystack.
pieces_of(c) == collect_next(haystack, c, new(haystack, c))

\* The backward pieces of configuration c on the whole haystack.
back_pieces_of(c) == collect_next_back(haystack, c, new(haystack, c))

\* A piece sequence in haystack order without its last piece if it is empty.
DropTrailingEmpty(ps) ==
    IF ps # <<>> /\ is_empty(ps[Len(ps)])
    THEN SubSeq(ps, 1, Len(ps) - 1)
    ELSE ps

\* A piece sequence in haystack order without its first piece if it is empty.
DropLeadingEmpty(ps) ==
    IF ps # <<>> /\ is_empty(ps[1])
    THEN SubSeq(ps, 2, Len(ps))
    ELSE ps

(***************************************************************************)
(* C11: the forward pieces of the terminator split are the forward pieces  *)
(* of the exclusive split without its last piece exactly when that piece   *)
(* is empty, no other piece changing; the backward pieces, which come in   *)
(* reverse haystack order, stand in the same relation.                     *)
(***************************************************************************)
C11_TerminatorDropsOneTrailingEmpty ==
    /\ pieces_of("SplitTerminator") = DropTrailingEmpty(pieces_of("Split"))
    /\ Reverse(back_pieces_of("SplitTerminator"))
         = DropTrailingEmpty(Reverse(back_pieces_of("Split")))
    /\ (wrapper = "Iter" /\ cfg = "SplitTerminator" /\ exhausted
            /\ ~finish_called /\ back = <<>>)
         => front = DropTrailingEmpty(pieces_of("Split"))
    /\ (wrapper = "Iter" /\ cfg = "SplitTerminator" /\ exhausted
            /\ ~finish_called /\ front = <<>>)
         => Reverse(back) = DropTrailingEmpty(Reverse(back_pieces_of("Split")))

\* A terminator split run forward to exhaustion on a haystack that ends with
\* a separator: the exclusive split has one more piece, the empty one.
C11_Witness ==
    /\ wrapper = "Iter" /\ cfg = "SplitTerminator"
    /\ exhausted /\ ~finish_called /\ back = <<>>
    /\ Len(front) = 2
    /\ Len(pieces_of("Split")) = 3
    /\ is_empty(pieces_of("Split")[3])

\* The last call was next() on an unfinished machine driven directly.
NextOnUnfinished == wrapper = "Iter" /\ op = "next" /\ ~prev.iter.finished

\* The pieces the last next() took off the front: one per separator match it
\* consumed, and the remainder if it finished the machine.
matches_consumed ==
    Cardinality(MatchStarts(haystack, prev.iter.matcher)
                    \ MatchStarts(haystack, iter.matcher))
pieces_taken == matches_consumed + (IF iter.finished THEN 1 ELSE 0)
pieces_returned == IF IsSome(ret) THEN 1 ELSE 0

\* The last next() took the remainder, and the trailing-empty rule withheld it.
remainder_withheld ==
    iter.finished /\ ret = None /\ next_withholds(iter, Some(iter.start, iter.end))

\* The pieces the last next() took and dropped by its leading-empty rule.
pieces_discarded ==
    pieces_taken - pieces_returned - (IF remainder_withheld THEN 1 ELSE 0)

\* The first piece a next() on the state before the call takes is empty.
first_piece_is_empty ==
    LET q == next_match(haystack, prev.iter.matcher)
    IN  IF IsSome(q.ret)
        THEN q.ret[1] = prev.iter.start
        ELSE prev.iter.start = prev.iter.end

(***************************************************************************)
(* C12: in the configurations with a skip_leading_empty flag only the      *)
(* first call of next() may discard a piece; it discards exactly one       *)
(* piece, only if that piece is empty, and returns None if taking that     *)
(* piece finished the machine.  So the initiator split yields the pieces   *)
(* of the exclusive split minus at most one leading empty piece, and the   *)
(* ends split yields them minus at most one leading and one trailing empty *)
(* piece.                                                                  *)
(***************************************************************************)
C12_LeadingSkipDiscardsOneEmptyPiece ==
    /\ NextOnUnfinished =>
         /\ ~iter.skip_leading_empty
         /\ pieces_discarded \in {0, 1}
         /\ pieces_discarded = 1 =>
              /\ has_skip_leading_empty(cfg)
              /\ prev.iter.skip_leading_empty
              /\ Len(front) = pieces_returned
              /\ first_piece_is_empty
              /\ matches_consumed = 0 => (iter.finished /\ ret = None)
    /\ pieces_of("SplitInitiator") = DropLeadingEmpty(pieces_of("Split"))
    /\ pieces_of("SplitEnds")
         = DropTrailingEmpty(DropLeadingEmpty(pieces_of("Split")))

\* The first next() of an ends split discarded the empty piece in front of a
\* leading separator and returned the piece after it.
C12_Witness ==
    /\ NextOnUnfinished /\ cfg = "SplitEnds"
    /\ pieces_discarded = 1
    /\ IsSome(ret) /\ ~is_empty(ret)
    /\ front = <<ret>>

\* The piece r ends with a matched separator, begins with one, and the
\* separators it holds at other places.
EndsWithSep(h, r) == r[1] < r[2] /\ h[r[2]] = Sep
BeginsWithSep(h, r) == r[1] < r[2] /\ h[r[1] + 1] = Sep
SepsOffEnd(h, r) == SepsInside(h, r) \ {r[2] - 1}
SepsOffStart(h, r) == SepsInside(h, r) \ {r[1]}

(***************************************************************************)
(* C13: when the searcher returns a match (a, b), next() yields            *)
(* haystack[start..b] if include_trailing is set and haystack[start..a]    *)
(* otherwise, and sets start to a if include_leading is set and to b       *)
(* otherwise.  So in the right-inclusive split every piece but possibly    *)
(* the last ends with a matched separator, in the left-inclusive split     *)
(* every piece but possibly the first begins with one, and no piece holds  *)
(* a separator anywhere else.                                              *)
(***************************************************************************)
C13_ForwardBoundaryPolicy ==
    /\ (NextOnUnfinished /\ matches_consumed = 1 /\ pieces_discarded = 0) =>
         LET q == next_match(haystack, prev.iter.matcher)
             a == q.ret[1]
             b == q.ret[2]
         IN  /\ ret = Some(prev.iter.start,
                           IF include_trailing(cfg) THEN b ELSE a)
             /\ iter.start = IF include_leading(cfg) THEN a ELSE b
             /\ iter.end = prev.iter.end
    /\ (NextOnUnfinished /\ matches_consumed = 2) =>
         LET q1 == next_match(haystack, prev.iter.matcher)
             q2 == next_match(haystack, q1.matcher)
             from == IF include_leading(cfg) THEN q1.ret[1] ELSE q1.ret[2]
         IN  /\ pieces_discarded = 1
             /\ ret = Some(from, IF include_trailing(cfg)
                                 THEN q2.ret[2] ELSE q2.ret[1])
             /\ iter.start = IF include_leading(cfg)
                             THEN q2.ret[1] ELSE q2.ret[2]
    /\ LET ps == pieces_of("SplitInclusive")
       IN  /\ \A i \in 1 .. (Len(ps) - 1) : EndsWithSep(haystack, ps[i])
           /\ \A i \in 1 .. Len(ps) : SepsOffEnd(haystack, ps[i]) = {}
    /\ LET ps == pieces_of("SplitLeftInclusive")
       IN  /\ \A i \in 2 .. Len(ps) : BeginsWithSep(haystack, ps[i])
           /\ \A i \in 1 .. Len(ps) : SepsOffStart(haystack, ps[i]) = {}

\* A next() of the left-inclusive split took a match behind its cursor: the
\* piece it returned begins with the earlier separator and the cursor stands
\* on the matched one.
C13_Witness ==
    /\ NextOnUnfinished /\ cfg = "SplitLeftInclusive"
    /\ matches_consumed = 1 /\ pieces_discarded = 0
    /\ IsSome(ret) /\ BeginsWithSep(haystack, ret)
    /\ iter.start = ret[2] /\ haystack[iter.start + 1] = Sep

\* The pattern matches nowhere in the haystack.
NeverMatches == \A i \in 1 .. Len(haystack) : haystack[i] # Sep

\* The machine was driven by next() alone, to exhaustion.
ForwardRunToExhaustion ==
    wrapper = "Iter" /\ exhausted /\ ~finish_called /\ back = <<>>

(***************************************************************************)
(* C14: on the empty haystack the exclusive split yields exactly one       *)
(* piece, the empty string, and the terminator, initiator, ends, right-    *)
(* inclusive and left-inclusive splits yield none; on a non-empty haystack *)
(* in which the pattern never matches every configuration yields exactly   *)
(* one piece, the whole haystack.                                          *)
(***************************************************************************)
C14_NoMatchEdgeCases ==
    /\ haystack = <<>> =>
         /\ pieces_of("Split") = <<Some(0, 0)>>
         /\ \A c \in Configs \ {"Split"} : pieces_of(c) = <<>>
         /\ ForwardRunToExhaustion =>
              front = IF cfg = "Split" THEN <<Some(0, 0)>> ELSE <<>>
    /\ (haystack # <<>> /\ NeverMatches) =>
         /\ \A c \in Configs : pieces_of(c) = <<Some(0, Len(haystack))>>
         /\ ForwardRunToExhaustion => front = <<Some(0, Len(haystack))>>

\* A split with both skip flags, run forward to exhaustion on a non-empty
\* haystack without a separator, yielded the haystack.
C14_Witness ==
    /\ ForwardRunToExhaustion /\ cfg = "SplitEnds"
    /\ haystack # <<>> /\ NeverMatches
    /\ front = <<Some(0, Len(haystack))>>

(***************************************************************************)
(* C15: for every slice, predicate and each of the three configurations of *)
(* the slice splitter, the pieces of calling only next() until None are,   *)
(* in reverse order, the pieces of calling only next_back() until None.    *)
(***************************************************************************)
C15_SliceForwardIsReverseOfBackward ==
    /\ \A c \in SliceConfigs :
         slice_collect_next(haystack, c, slice_new(haystack))
             = Reverse(slice_collect_next_back(haystack, c, slice_new(haystack)))
    /\ (wrapper = "Slice" /\ exhausted /\ ~finish_called /\ back = <<>>) =>
         front = Reverse(slice_collect_next_back(haystack, cfg,
                                                 slice_new(haystack)))
    /\ (wrapper = "Slice" /\ exhausted /\ ~finish_called /\ front = <<>>) =>
         back = Reverse(slice_collect_next(haystack, cfg, slice_new(haystack)))

\* A left-inclusive slice split run backward to exhaustion over a slice that
\* begins with a matching element and holds another: two pieces, none empty.
C15_Witness ==
    /\ wrapper = "Slice" /\ cfg = "SliceSplitLeftInclusive"
    /\ exhausted /\ ~finish_called /\ front = <<>>
    /\ Len(haystack) >= 3 /\ haystack[1] = Sep
    /\ Len(back) = 2
    /\ \A i \in 1 .. 2 : ~is_empty(back[i])

\* The address of the i-th element (from 0) of the slice, the number of
\* elements the slice has, and the number the calls have returned (front and
\* back hold the references as returned, Some(address) each).
elem_addr(i) == slice_addr + i * cfg
slice_len == Len(haystack)
returned == Len(front) + Len(back)

\* The number of elements returned before the last next() or next_back().
returned_before == returned - (IF IsSome(ret) THEN 1 ELSE 0)

(***************************************************************************)
(* C16: next() returns the first remaining element and removes it from the *)
(* front, next_back() returns the last remaining element and removes it    *)
(* from the back, and each returns None exactly when no element remains,   *)
(* that is when ptr = end.  Under any interleaving of the two every        *)
(* element of the slice is returned at most once and the elements not yet  *)
(* returned form one contiguous range.                                     *)
(***************************************************************************)
C16_CursorPairStepsFromBothEnds ==
    LET was == prev.iter
        n == len(cfg, was)
    IN  /\ ~iter.ub
        /\ op \in {<<"next">>, <<"next_back">>} =>
             /\ ret = None <=> was.ptr = was.end
             /\ ret = None <=> n = 0
             /\ ret = None => iter = was
             /\ IsSome(ret) => len(cfg, iter) = n - 1
        /\ (op = <<"next">> /\ IsSome(ret)) =>
             /\ ret = <<was.ptr>>
             /\ cfg # 0 => (iter.ptr = was.ptr + cfg /\ iter.end = was.end)
        /\ (op = <<"next_back">> /\ IsSome(ret)) =>
             /\ cfg # 0 => (ret = <<iter.end>> /\ iter.end = was.end - cfg
                                /\ iter.ptr = was.ptr)
             /\ cfg = 0 => ret = <<was.ptr>>
        /\ returned <= slice_len
        /\ cfg # 0 =>
             /\ front = [i \in 1 .. Len(front) |-> <<elem_addr(i - 1)>>]
             /\ back = [i \in 1 .. Len(back) |-> <<elem_addr(slice_len - i)>>]
             /\ iter.ptr = elem_addr(Len(front))
             /\ iter.end = elem_addr(slice_len - Len(back))

\* Calls at both ends met inside a slice of sized elements: the last
\* next_back() returned the element after the one next() had returned, and
\* the call after it returned None.
C16_Witness ==
    /\ cfg # 0 /\ exhausted /\ slice_len = MaxElems
    /\ Len(front) >= 1 /\ Len(back) >= 2
    /\ op = <<"next">> /\ ret = None
    /\ back[Len(back)][1] = front[Len(front)][1] + cfg

(***************************************************************************)
(* C17: an iterator over zero-sized elements built with count k reports    *)
(* len() = k before any call and k minus the number of elements returned   *)
(* after any sequence of next() and next_back() calls; the calls return an *)
(* element exactly while that number is positive, so exactly k elements    *)
(* are returned in total.                                                  *)
(***************************************************************************)
C17_ZeroSizedLenCountsDown ==
    cfg = 0 =>
        /\ op = <<"new">> => len(cfg, iter) = slice_len
        /\ len(cfg, iter) = slice_len - returned
        /\ op \in {<<"next">>, <<"next_back">>} =>
             (IsSome(ret) <=> slice_len - returned_before > 0)
        /\ returned <= slice_len
        /\ exhausted => returned = slice_len

\* The greatest count an address can encode, returned in full from both ends.
C17_Witness ==
    /\ cfg = 0 /\ slice_len = AddrSpace - 1
    /\ exhausted /\ returned = slice_len
    /\ Len(front) >= 1 /\ Len(back) >= 1
    /\ len(cfg, iter) = 0

\* The last call was advance_by or advance_back_by; its argument, and the
\* len() it found.
Advancing == op[1] \in {"advance_by", "advance_back_by"}
arg == op[2]
len_before == len(cfg, prev.iter)

(***************************************************************************)
(* C18: advance_by(n) removes exactly min(n, len()) elements from the      *)
(* front and advance_back_by(n) exactly min(n, len()) from the back,       *)
(* leaving the other end untouched; each returns success exactly when      *)
(* n <= len() at the time of the call.                                     *)
(***************************************************************************)
C18_AdvanceByTakesMinOfArgAndLen ==
    Advancing =>
        LET was == prev.iter
            taken == Min(arg, len_before)
        IN  /\ ~iter.ub
            /\ len(cfg, iter) = len_before - taken
            /\ (op[1] = "advance_by" /\ cfg # 0) =>
                 (iter.ptr = was.ptr + taken * cfg /\ iter.end = was.end)
            /\ (op[1] = "advance_back_by" /\ cfg # 0) =>
                 (iter.end = was.end - taken * cfg /\ iter.ptr = was.ptr)
            /\ cfg = 0 => iter.ptr = was.ptr
            /\ ret = Ok <=> arg <= len_before
            /\ ret # Ok => ret[1] = "Err"

\* advance_back_by asked for more elements than the two a slice of sized
\* elements still had after a call at the front: it took both and failed.
C18_Witness ==
    /\ op[1] = "advance_back_by" /\ cfg # 0
    /\ len_before = 2 /\ arg > 2
    /\ prev.iter.ptr > slice_addr
    /\ iter.ptr = prev.iter.ptr /\ iter.end = iter.ptr
    /\ ret # Ok

(***************************************************************************)
(* C19 (as stated): when advance_by(n) or advance_back_by(n) cannot be     *)
(* satisfied in full (n > len()), the error value it returns is the        *)
(* shortfall n - len().                                                    *)
(***************************************************************************)
C19_AdvanceErrorIsShortfall ==
    (Advancing /\ arg > len_before) => ret = Err(arg - len_before)

(***************************************************************************)
(* C19 (amended): when advance_by(n) or advance_back_by(n) cannot be       *)
(* satisfied in full (n > len()), the error value it returns is the number *)
(* of elements it did advance by, which is len() at the time of the call.  *)
(***************************************************************************)
C19_AdvanceErrorIsStepsTaken ==
    (Advancing /\ arg > len_before) =>
        /\ ret = Err(len_before)
        /\ len(cfg, iter) = 0

\* advance_by asked for more than the one element left: the error holds 1,
\* while the call fell short by more.
C19_Witness ==
    /\ op[1] = "advance_by" /\ len_before = 1 /\ arg - len_before > 1
    /\ ret = Err(1)

(***************************************************************************)
(* C20: nth(n) and nth_back(n) with n >= len() return None and leave the   *)
(* iterator exhausted with both cursors coincident (len() = 0, is_empty,   *)
(* every later next() and next_back() returns None), never partially       *)
(* advanced, for zero-sized and for sized elements.                        *)
(***************************************************************************)
C20_NthOutOfRangeExhausts ==
    /\ (op[1] \in {"nth", "nth_back"} /\ arg >= len_before) =>
         /\ ret = None
         /\ ~iter.ub
         /\ iter.ptr = iter.end
         /\ len(cfg, iter) = 0
         /\ iter_is_empty(iter)
         /\ iter_next(haystack, cfg, iter) = [iter |-> iter, ret |-> None]
         /\ iter_next_back(haystack, cfg, iter) = [iter |-> iter, ret |-> None]
    /\ (wrapper = "SliceIter" /\ iter_is_empty(prev.iter)) =>
         /\ iter = prev.iter
         /\ op[1] \in {"next", "next_back", "nth", "nth_back"} => ret = None

\* nth() past the end of a slice of sized elements that still had two after
\* a next(): the front cursor went to the end cursor, nothing was returned.
C20_Witness ==
    /\ cfg # 0 /\ op[1] = "nth" /\ arg >= len_before
    /\ len_before = 2 /\ Len(front) = 1
    /\ ret = None
    /\ iter.ptr = prev.iter.end /\ iter.end = prev.iter.end
(***************************************************************************)
(* C21: after any sequence of next, next_back, nth, nth_back, advance_by   *)
(* and advance_back_by calls on an iterator over sized elements,           *)
(* ptr <= end, both cursors lie in [base, base + length * size] and        *)
(* end - ptr is an exact multiple of the element size, so the unchecked    *)
(* subtraction and the exact division of len() are always valid.           *)
(***************************************************************************)
C21_CursorsOrderedInBoundsAligned ==
    (wrapper = "SliceIter" /\ cfg # 0) =>
        /\ iter.ptr <= iter.end
        /\ in_bounds(haystack, cfg, iter.ptr)
        /\ in_bounds(haystack, cfg, iter.end)
        /\ (iter.end - iter.ptr) % cfg = 0
        /\ ~len_ub(cfg, iter)
        /\ ~iter.ub
        /\ len(cfg, iter) * cfg = iter.end - iter.ptr

\* Calls at both ends left one sized element strictly inside the slice.
C21_Witness ==
    /\ wrapper = "SliceIter" /\ cfg # 0
    /\ op[1] = "advance_back_by"
    /\ slice_addr < iter.ptr /\ iter.ptr < iter.end
    /\ iter.end < elem_addr(slice_len)
    /\ len(cfg, iter) = 1

\* The pieces a string split iterator has yielded from the front and from
\* the back of the haystack (a reverse limiter yields from the back).
front_pieces == IF wrapper = "RN" THEN <<>> ELSE front
back_pieces == IF wrapper = "RN" THEN front ELSE back

\* Every element of haystack[lo..hi] belongs to a separator match.
OnlySeparators(lo, hi) == \A i \in lo .. (hi - 1) : haystack[i + 1] = Sep

\* The remainder lies between the pieces yielded at the two ends, with
\* nothing but consumed separators between it and them.
RemainderBetweenPieces ==
    LET front_hi == IF front_pieces = <<>>
                    THEN 0 ELSE front_pieces[Len(front_pieces)][2]
        back_lo == IF back_pieces = <<>>
                   THEN Len(haystack) ELSE back_pieces[Len(back_pieces)][1]
    IN  /\ \A i \in 1 .. Len(front_pieces) : front_pieces[i][2] <= iter.start
        /\ \A i \in 1 .. Len(back_pieces) : back_pieces[i][1] >= iter.end
        /\ OnlySeparators(front_hi, iter.start)
        /\ OnlySeparators(iter.end, back_lo)

\* A limiter built with limit 0: it returns None without touching its machine.
ZeroLimiter == wrapper \in {"N", "RN"} /\ limit = 0

(***************************************************************************)
(* C22 (as stated): as_str() returns the remainder of the split string: in *)
(* every reachable state of a split iterator that is not finished it is    *)
(* haystack[start..end], the part of the haystack not yet covered by any   *)
(* piece yielded from the front or from the back, and once the iterator    *)
(* has been exhausted (or finished through a limiter) it is the empty      *)
(* string.                                                                 *)
(***************************************************************************)
C22_AsStrIsRemainderEmptyOnceExhausted ==
    wrapper \in Wrappers =>
        /\ ~iter.finished =>
             /\ as_str(haystack, cfg, iter)
                  = SubSeq(haystack, iter.start + 1, iter.end)
             /\ RemainderBetweenPieces
        /\ (exhausted \/ iter.finished) => as_str(haystack, cfg, iter) = <<>>

(***************************************************************************)
(* C22 (amended): as_str() is haystack[start..end], the part between the   *)
(* pieces yielded at the two ends, while the machine is not finished, and  *)
(* the empty string once it is finished, which every exhausted iterator is *)
(* except a limiter built with limit 0: that one is exhausted from the     *)
(* start, never finishes its machine, and as_str() stays the whole         *)
(* haystack.                                                               *)
(***************************************************************************)
C22_AsStrIsRemainderEmptyOnceFinished ==
    wrapper \in Wrappers =>
        /\ ~iter.finished =>
             /\ as_str(haystack, cfg, iter)
                  = SubSeq(haystack, iter.start + 1, iter.end)
             /\ RemainderBetweenPieces
        /\ iter.finished => as_str(haystack, cfg, iter) = <<>>
        /\ (exhausted /\ ~ZeroLimiter) => iter.finished
        /\ ZeroLimiter =>
             (~iter.finished /\ as_str(haystack, cfg, iter) = haystack)

\* A left-inclusive split after a next() and a next_back(): the remainder is
\* not empty, begins with the separator next() stopped at, and leaves out
\* the pieces yielded at both ends.
C22_Witness ==
    /\ wrapper = "Iter" /\ cfg = "SplitLeftInclusive" /\ ~iter.finished
    /\ Len(front) = 1 /\ Len(back) = 1
    /\ ~is_empty(front[1]) /\ ~is_empty(back[1])
    /\ as_str(haystack, cfg, iter) = <<Sep, "a">>

\* The chars of the bytes it has left, decoded from the front.
RECURSIVE chars_left(_, _)
chars_left(h, it) ==
    LET r == chars_next(h, it)
    IN  IF IsSome(r.ret) THEN <<r.ret[1]>> \o chars_left(h, r.iter) ELSE <<>>

(***************************************************************************)
(* C23: at any time CharIndices::offset() is the byte position of the      *)
(* next char next() would yield, or the length of the underlying string    *)
(* if there are no more chars.                                             *)
(***************************************************************************)
C23_OffsetIsNextPositionOrStringLength ==
    wrapper = "CharIndices" =>
        LET r == char_indices_next(haystack, iter)
        IN  offset(iter) = IF IsSome(r.ret) THEN r.ret[1] ELSE Len(haystack)
\* The u16 values EncodeUtf16 still yields.
RECURSIVE utf16_left(_, _)
utf16_left(h, e) ==
    LET r == encode_utf16_next(h, e)
    IN  IF IsSome(r.ret) THEN <<r.ret[1]>> \o utf16_left(h, r.iter) ELSE <<>>

(***************************************************************************)
(* C24: EncodeUtf16::size_hint is a valid bound in every reachable state:  *)
(* the number of u16 values still to come is between the lower and the     *)
(* upper bound it reports (1 and 2 times the length of the underlying char *)
(* iterator), also right after the first half of a surrogate pair has      *)
(* been yielded.                                                           *)
(***************************************************************************)
C24_EncodeUtf16SizeHintBounds ==
    wrapper = "EncodeUtf16" =>
        LET hint == encode_utf16_size_hint(iter)
            n == Len(utf16_left(haystack, iter))
        IN  /\ hint[1] <= n
            /\ \A upper \in hint[2] : n <= upper

(***************************************************************************)
(* C26: Chars::size_hint is a valid bound in every reachable state: with   *)
(* len bytes of valid UTF-8 left (each char 1 to 4 bytes), the number of   *)
(* chars still to come, after any interleaving of next() and next_back(),  *)
(* is at least (len + 3) / 4 and at most len, and len + 3 does not         *)
(* overflow for len <= isize::MAX.                                         *)
(***************************************************************************)
C26_CharsSizeHintBounds ==
    wrapper = "Chars" =>
        LET hint == chars_size_hint(iter)
            n == Len(chars_left(haystack, iter))
            bytes == bytes_len(iter)
        IN  /\ bytes <= isize_MAX
            /\ hint = <<(bytes + 3) \div 4, bytes>>
            /\ hint[1] <= n /\ n <= hint[2]
            /\ \A l \in 0 .. isize_MAX : l + 3 < LenSpace

\* A string of isize::MAX bytes after a next() and a next_back(): one char
\* of 4 bytes is left and the lower bound is met exactly.
C26_Witness ==
    /\ wrapper = "Chars" /\ Len(haystack) = isize_MAX
    /\ Len(front) = 1 /\ Len(back) = 1
    /\ bytes_len(iter) = 4
    /\ chars_size_hint(iter) = <<1, 4>>
    /\ Len(chars_left(haystack, iter)) = 1

\* The matches the searcher s of pattern p has left, front to back.
RECURSIVE matches_left(_, _, _)
matches_left(p, h, s) ==
    LET q == pattern_next_match(p, h, s)
    IN  IF IsSome(q.ret) THEN <<q.ret>> \o matches_left(p, h, q.matcher) ELSE <<>>

\* What an enumerator yields for the match r.
yield_of(r) == IF wrapper = "Matches" THEN Some(r[1], r[2]) ELSE <<r[1], r>>

(***************************************************************************)
(* C25: the direct match enumerators keep no state besides the searcher:   *)
(* Matches::next yields haystack[a..b] and MatchIndices::next yields       *)
(* (a, haystack[a..b]) for exactly the match (a, b) the searcher's         *)
(* next_match returns, next_back does the same with next_match_back, each  *)
(* returns None exactly when the searcher returns None, and no match is    *)
(* skipped, merged or filtered for emptiness.                              *)
(***************************************************************************)
C25_MatchEnumeratorsFollowTheSearcher ==
    wrapper \in {"Matches", "MatchIndices"} =>
        /\ DOMAIN iter = {"searcher"}
        /\ op = <<"next">> =>
             LET q == pattern_next_match(cfg, haystack, prev.iter.searcher)
             IN  /\ iter.searcher = q.matcher
                 /\ ret = None <=> q.ret = None
                 /\ IsSome(q.ret) => ret = yield_of(q.ret)
        /\ op = <<"next_back">> =>
             LET q == pattern_next_match_back(cfg, haystack, prev.iter.searcher)
             IN  /\ iter.searcher = q.matcher
                 /\ ret = None <=> q.ret = None
                 /\ IsSome(q.ret) => ret = yield_of(q.ret)
        /\ LET all == matches_left(cfg, haystack, into_searcher(haystack))
               left == matches_left(cfg, haystack, iter.searcher)
           IN  front \o [i \in 1 .. Len(left) |-> yield_of(left[i])]
                     \o Reverse(back)
                 = [i \in 1 .. Len(all) |-> yield_of(all[i])]

\* Matches over the empty pattern, driven from both ends to exhaustion on a
\* haystack of two: the three matches came out, all of them empty.
C25_Witness ==
    /\ wrapper = "Matches" /\ cfg = "empty"
    /\ exhausted /\ Len(haystack) = 2
    /\ Len(front) = 2 /\ Len(back) = 1
    /\ \A i \in 1 .. 2 : is_empty(front[i])
    /\ is_empty(back[1])

\* The machine, driven directly by next() and next_back() in some order, has
\* returned None.
InterleavedRunToExhaustion == wrapper = "Iter" /\ exhausted /\ ~finish_called

(***************************************************************************)
(* C27: for any interleaving of next() and next_back() calls on one string *)
(* split machine run until both return None, in every configuration, the   *)
(* pieces next() returned in call order followed by the pieces next_back() *)
(* returned in reverse call order are exactly the sequence forward-only    *)
(* iteration of the haystack yields: no piece is lost or added by a skip   *)
(* flag being cleared from the other end.                                  *)
(***************************************************************************)
C27_InterleavingYieldsForwardSequence ==
    InterleavedRunToExhaustion =>
        /\ next(haystack, cfg, iter).ret = None
        /\ next_back(haystack, cfg, iter).ret = None
        /\ front \o Reverse(back) = pieces_of(cfg)

\* An ends split driven from both ends to exhaustion over a haystack with a
\* separator at each end: both empty end pieces are gone, the rest came out.
C27_Witness ==
    /\ InterleavedRunToExhaustion /\ cfg = "SplitEnds"
    /\ front # <<>> /\ back # <<>>
    /\ haystack[1] = Sep /\ haystack[Len(haystack)] = Sep
    /\ Len(pieces_of("Split")) = Len(front) + Len(back) + 2

\* The range a search step that returned r from the machine m passed to
\* get_unchecked: the piece of the match, or the remainder start..end.
range_passed(r, m) == IF IsSome(r.ret) THEN r.ret ELSE Some(m.start, m.end)

\* The ranges the next call of next() and of next_back() passes to
\* get_unchecked, the discarded and the withheld ones included.
next_ranges(h, c, m) ==
    IF m.finished THEN {}
    ELSE IF m.skip_leading_empty
    THEN LET m0 == [m EXCEPT !.skip_leading_empty = FALSE]
             r == next_search(h, c, m0)
         IN  {range_passed(r, m0)}
                 \cup IF (IsSome(r.ret) /\ ~is_empty(r.ret)) \/ r.iter.finished
                      THEN {}
                      ELSE {range_passed(next_search(h, c, r.iter), r.iter)}
    ELSE {range_passed(next_search(h, c, m), m)}

next_back_ranges(h, c, m) ==
    IF m.finished THEN {}
    ELSE IF m.skip_trailing_empty
    THEN LET m0 == [m EXCEPT !.skip_trailing_empty = FALSE]
             r == next_back_search(h, c, m0)
         IN  {range_passed(r, m0)}
                 \cup IF (IsSome(r.ret) /\ ~is_empty(r.ret)) \/ r.iter.finished
                      THEN {}
                      ELSE {range_passed(next_back_search(h, c, r.iter), r.iter)}
    ELSE {range_passed(next_back_search(h, c, m), m)}

\* The offsets at which a searcher match begins or ends, with 0 and the
\* length of the haystack.
boundaries ==
    {0, Len(haystack)}
        \cup UNION {{i - 1, i} : i \in {j \in 1 .. Len(haystack) : haystack[j] = Sep}}

SafeRange(r) ==
    /\ 0 <= r[1] /\ r[1] <= r[2] /\ r[2] <= Len(haystack)
    /\ r[1] \in boundaries /\ r[2] \in boundaries

(***************************************************************************)
(* C28: in every reachable state of the string split machine               *)
(* 0 <= start <= end <= haystack length, and every range lo..hi that       *)
(* next, next_back, finish and as_str pass to get_unchecked has            *)
(* lo <= hi <= haystack length and both ends at 0, at the haystack length  *)
(* or at a boundary of a searcher match, for any interleaving of the       *)
(* operations.                                                             *)
(***************************************************************************)
C28_UncheckedRangesAreSafe ==
    wrapper \in Wrappers =>
        /\ 0 <= iter.start /\ iter.start <= iter.end
        /\ iter.end <= Len(haystack)
        /\ SafeRange(Some(iter.start, iter.end))
        /\ \A r \in next_ranges(haystack, cfg, iter) : SafeRange(r)
        /\ \A r \in next_back_ranges(haystack, cfg, iter) : SafeRange(r)
        /\ IsSome(ret) => SafeRange(ret)
        /\ \A i \in 1 .. Len(front) : SafeRange(front[i])
        /\ \A i \in 1 .. Len(back) : SafeRange(back[i])

\* An ends split after a next_back(), about to make a next() that passes two
\* ranges: the one it discards and the one it returns.
C28_Witness ==
    /\ wrapper = "Iter" /\ cfg = "SplitEnds" /\ ~iter.finished
    /\ op = "next_back" /\ IsSome(ret) /\ ~is_empty(ret)
    /\ Cardinality(next_ranges(haystack, cfg, iter)) = 2
    /\ 0 < iter.end /\ iter.end < Len(haystack)

(***************************************************************************)
(* C29: next() never changes end nor skip_trailing_empty; next_back()      *)
(* never changes start nor skip_leading_empty; finish() changes neither    *)
(* start nor end; start never decreases and end never increases; finished  *)
(* never goes from true back to false.                                     *)
(***************************************************************************)
C29_FrameConditions ==
    (wrapper \in Wrappers /\ op # "new") =>
        LET was == prev.iter
        IN  /\ op = "next" =>
                 /\ iter.end = was.end
                 /\ iter.skip_trailing_empty = was.skip_trailing_empty
            /\ op = "next_back" =>
                 /\ iter.start = was.start
                 /\ iter.skip_leading_empty = was.skip_leading_empty
            /\ (op = "finish" \/ (op = "n_next" /\ prev.count = 1)) =>
                 /\ iter.start = was.start
                 /\ iter.end = was.end
            /\ was.start <= iter.start
            /\ iter.end <= was.end
            /\ was.finished => iter.finished

\* A next() of the ends split moved start past a separator and left end and
\* the trailing flag, still set, as they were.
C29_Witness ==
    /\ wrapper = "Iter" /\ cfg = "SplitEnds" /\ op = "next"
    /\ prev.iter.start < iter.start
    /\ iter.end = prev.iter.end
    /\ prev.iter.skip_trailing_empty /\ iter.skip_trailing_empty
    /\ ~prev.iter.finished /\ ~iter.finished

\* The set S of numbers in increasing order.
RECURSIVE Sorted(_)
Sorted(S) == IF S = {} THEN <<>> ELSE <<SetMin(S)>> \o Sorted(S \ {SetMin(S)})

\* The reference partition of the slice for configuration c: the runs cut
\* at the indices whose element satisfies the predicate, the cut falling
\* around the element (exclusive), after it (right-inclusive) or before it
\* (left-inclusive), less the empty final or first run of the inclusive ones.
reference_runs(c) ==
    LET ms == Sorted({i \in 0 .. (Len(haystack) - 1) : haystack[i + 1] = Sep})
        k == Len(ms)
        lo(i) == IF i = 1 THEN 0
                 ELSE IF slice_include_leading(c) THEN ms[i - 1]
                 ELSE ms[i - 1] + 1
        hi(i) == IF i = k + 1 THEN Len(haystack)
                 ELSE IF slice_include_trailing(c) THEN ms[i] + 1
                 ELSE ms[i]
        runs == [i \in 1 .. (k + 1) |-> <<lo(i), hi(i)>>]
    IN  IF slice_include_trailing(c) THEN DropTrailingEmpty(runs)
        ELSE IF slice_include_leading(c) THEN DropLeadingEmpty(runs)
        ELSE runs

(***************************************************************************)
(* C30: with M the set of indices whose element satisfies the predicate,   *)
(* forward iteration of the slice splitter yields for exclusive exactly    *)
(* the |M| + 1 runs between consecutive matching indices (matching         *)
(* elements excluded, empty runs kept), for right-inclusive the runs cut   *)
(* right after each matching index less an empty final run, for            *)
(* left-inclusive the runs cut right before each matching index less an    *)
(* empty first run; starting the left-inclusive search at index 1, and the *)
(* right-inclusive backward search one short of the end, misses no cut.    *)
(***************************************************************************)
C30_SliceSplitterMatchesReferencePartition ==
    /\ \A c \in SliceConfigs :
         /\ slice_collect_next(haystack, c, slice_new(haystack))
              = reference_runs(c)
         /\ Reverse(slice_collect_next_back(haystack, c, slice_new(haystack)))
              = reference_runs(c)
    /\ (wrapper = "Slice" /\ exhausted /\ ~finish_called /\ back = <<>>) =>
         front = reference_runs(cfg)
    /\ (wrapper = "Slice" /\ exhausted /\ ~finish_called /\ front = <<>>) =>
         Reverse(back) = reference_runs(cfg)

\* A left-inclusive split run forward over a slice whose first three
\* elements all match: the first run is empty and dropped, and the cuts at
\* indices 1 and 2, one element into what was left each time, are made.
C30_Witness ==
    /\ wrapper = "Slice" /\ cfg = "SliceSplitLeftInclusive"
    /\ exhausted /\ ~finish_called /\ back = <<>>
    /\ Len(haystack) >= 3
    /\ \A i \in 1 .. 3 : haystack[i] = Sep
    /\ Len(front) >= 3
    /\ front[1] = Some(0, 1) /\ front[2] = Some(1, 2)

\* The indices of the original slice that the range r covers.
Indices(r) == r[1] .. (r[2] - 1)

\* What the shared_ref splitter returned to the call the mut_ref splitter
\* has just answered.
shared_ret ==
    CASE op = "next" -> slice_next(haystack, cfg, prev.iter.shared).ret
      [] op = "next_back" -> slice_next_back(haystack, cfg, prev.iter.shared).ret
      [] op = "finish" -> slice_finish(haystack, cfg, prev.iter.shared).ret
      [] OTHER -> None

\* Every piece the mut_ref splitter has handed out.
handed_out == front \o back

\* No two pieces handed out by the mut_ref splitter share an index, and
\* none shares an index with the slice the splitter still holds.
MutPiecesDisjoint ==
    /\ \A i, j \in 1 .. Len(handed_out) :
         i # j => Indices(handed_out[i]) \cap Indices(handed_out[j]) = {}
    /\ \A i \in 1 .. Len(handed_out) :
         Indices(handed_out[i]) \cap Indices(iter.mut.v) = {}

(***************************************************************************)
(* C31 as stated: for every configuration, slice, predicate and            *)
(* interleaving of next(), next_back() and finish(), the mut_ref branch    *)
(* and the shared_ref branch yield pieces covering the same index ranges   *)
(* and keep the same remaining range v, and the pieces handed out by the   *)
(* mut_ref branch never overlap each other or the remaining v.             *)
(***************************************************************************)
C31_MutBranchKeepsSameRemainder ==
    /\ ret = shared_ret
    /\ iter.mut.finished = iter.shared.finished
    /\ Indices(iter.mut.v) = Indices(iter.shared.v)
    /\ MutPiecesDisjoint

(***************************************************************************)
(* C31 amended: the two branches yield the same pieces at every call and   *)
(* finish together; as long as they are not finished they keep the same    *)
(* remaining range v; once finished the mut_ref branch holds an empty v    *)
(* (the last piece was moved out of it), whereas the shared_ref branch's v *)
(* is whatever it was when it finished; the pieces handed out by the       *)
(* mut_ref branch never overlap each other or its v.                       *)
(***************************************************************************)
C31_MutBranchSameUntilFinished ==
    /\ ret = shared_ret
    /\ iter.mut.finished = iter.shared.finished
    /\ ~iter.mut.finished => iter.mut.v = iter.shared.v
    /\ iter.mut.finished =>
         /\ is_empty(iter.mut.v)
         /\ (~prev.iter.shared.finished => iter.shared.v = prev.iter.shared.v)
    /\ MutPiecesDisjoint

\* A left-inclusive mut_ref splitter that has cut a piece off each end with
\* split_at_mut and still holds a non-empty slice between them.
C31_Witness ==
    /\ wrapper = "SliceMut" /\ cfg = "SliceSplitLeftInclusive"
    /\ op = "next_back" /\ IsSome(ret) /\ ~is_empty(ret)
    /\ Len(front) = 1 /\ Len(back) = 1
    /\ ~iter.mut.finished /\ ~is_empty(iter.mut.v)

\* The number of pieces next() alone, and next_back() alone, would still
\* yield from the slice splitter as it stands.
to_be_yielded == Len(slice_collect_next(haystack, cfg, iter))
to_be_yielded_back == Len(slice_collect_next_back(haystack, cfg, iter))

(***************************************************************************)
(* C32: in every reachable state of the slice splitter, also after next()  *)
(* and next_back() calls have been interleaved, size_hint() is a valid     *)
(* bound: once finished it is (0, Some(0)) and nothing more is yielded;    *)
(* otherwise the number of pieces still to be yielded is at least min and  *)
(* at most v.len() + min, min being 1 for the exclusive configuration and  *)
(* 0 for the inclusive ones.                                               *)
(***************************************************************************)
C32_SliceSizeHintBounds ==
    wrapper = "Slice" =>
        LET hint == slice_size_hint(cfg, iter)
            min == IF cfg = "SliceSplit" THEN 1 ELSE 0
        IN  /\ hint[1] <= to_be_yielded /\ to_be_yielded <= hint[2]
            /\ hint[1] <= to_be_yielded_back /\ to_be_yielded_back <= hint[2]
            /\ iter.finished =>
                 /\ hint = <<0, 0>>
                 /\ to_be_yielded = 0 /\ to_be_yielded_back = 0
            /\ ~iter.finished =>
                 /\ min <= to_be_yielded
                 /\ to_be_yielded <= (iter.v[2] - iter.v[1]) + min
                 /\ hint = <<min, (iter.v[2] - iter.v[1]) + min>>

\* An exclusive splitter that has yielded a piece at each end and holds two
\* elements that both match: three pieces are still to come, the upper
\* bound exactly.
C32_Witness ==
    /\ wrapper = "Slice" /\ cfg = "SliceSplit"
    /\ Len(front) >= 1 /\ Len(back) >= 1
    /\ ~iter.finished /\ iter.v[2] - iter.v[1] = 2
    /\ to_be_yielded = 3
    /\ slice_size_hint(cfg, iter) = <<1, 3>>

\* The configurations that keep the separator in a piece.
InclusiveConfigs ==
    {"SplitInclusive", "SplitLeftInclusive",
     "SliceSplitInclusive", "SliceSplitLeftInclusive"}

(***************************************************************************)
(* C33: in the right-inclusive and left-inclusive configurations, the      *)
(* matches being non-empty, no call of next(), next_back() or finish()     *)
(* yields an empty piece, for the string split machine and for the slice   *)
(* splitter, under any interleaving of the operations.                     *)
(***************************************************************************)
C33_InclusiveYieldsNoEmptyPiece ==
    cfg \in InclusiveConfigs =>
        /\ IsSome(ret) => ~is_empty(ret)
        /\ \A i \in 1 .. Len(front) : ~is_empty(front[i])
        /\ \A i \in 1 .. Len(back) : ~is_empty(back[i])

\* A left-inclusive string split over a haystack that begins with the
\* separator, so that an empty first piece was there to skip, driven from
\* both ends and then finished with a piece still to return.
C33_Witness ==
    /\ wrapper = "Iter" /\ cfg = "SplitLeftInclusive"
    /\ haystack # <<>> /\ haystack[1] = Sep
    /\ Len(front) >= 1 /\ Len(back) >= 1
    /\ op = "finish" /\ IsSome(ret) /\ ~is_empty(ret)

\* The address of the element at index k counted from the front of the
\* iterator as the call found it.
front_relative(k) == prev.iter.ptr + k * cfg

(***************************************************************************)
(* C34: the assumptions inside position and rposition always hold.  With   *)
(* n = len() at entry: whenever position's predicate returns true its      *)
(* counter i satisfies i < n and i is the front-relative index of the      *)
(* first satisfying element; in rposition the counter starts at n, is      *)
(* decremented exactly once per element taken from the back without ever   *)
(* underflowing, satisfies i < n when returned, and is the front-relative  *)
(* index of the last satisfying element.                                   *)
(***************************************************************************)
C34_PositionAssumptionsHold ==
    /\ ~iter.ub
    /\ op[1] = "position" =>
         /\ limit = len(cfg, prev.iter)
         /\ \A k \in 1 .. Len(front) :
              /\ front[k][1] = front_relative(k - 1)
              /\ front[k][2] <=> (k = Len(front) /\ IsSome(ret))
         /\ IsSome(ret) =>
              /\ count < limit
              /\ ret = <<count>>
              /\ count = Len(front) - 1
              /\ front[Len(front)] = <<front_relative(count), TRUE>>
         /\ ~IsSome(ret) => count = Len(front)
         /\ (op[2] = "done" /\ ~IsSome(ret)) => Len(front) = limit
    /\ op[1] = "rposition" =>
         /\ limit = len(cfg, prev.iter)
         /\ count = limit - Len(back)
         /\ count >= 0
         /\ \A k \in 1 .. Len(back) :
              /\ back[k][1] = front_relative(limit - k)
              /\ back[k][2] <=> (k = Len(back) /\ IsSome(ret))
         /\ IsSome(ret) =>
              /\ count < limit
              /\ ret = <<count>>
              /\ back[Len(back)] = <<front_relative(count), TRUE>>
         /\ (op[2] = "done" /\ ~IsSome(ret)) => Len(back) = limit

\* rposition, entered after an element was taken at the front, has taken
\* two elements from the back and returns the index of the second, the
\* first element of what it found, the predicate having refused the other.
C34_Witness ==
    /\ op = <<"rposition", "done">> /\ IsSome(ret)
    /\ cfg # 0
    /\ prev.iter.ptr # slice_addr
    /\ Len(back) = 2 /\ limit = 2 /\ ret = <<0>>

(***************************************************************************)
(* C35: in every reachable state of the cursor-pair iterator, for          *)
(* zero-sized and for sized element types, is_empty() (start address equal *)
(* to end) is true if and only if len() = 0.                               *)
(***************************************************************************)
C35_IsEmptyIffLenIsZero ==
    wrapper = "SliceIter" =>
        /\ ~len_ub(cfg, iter)
        /\ iter_is_empty(iter) <=> (len(cfg, iter) = 0)

\* nth() past the end of a slice of more zero-sized elements than a signed
\* offset can count, after calls at both ends: end was set to ptr, and the
\* length is 0.
C35_Witness ==
    /\ wrapper = "SliceIter" /\ cfg = 0
    /\ slice_len = AddrSpace - 1
    /\ Len(front) >= 1 /\ Len(back) >= 1
    /\ op[1] = "nth" /\ arg >= len_before /\ len_before >= AddrSpace \div 2
    /\ iter_is_empty(iter) /\ len(cfg, iter) = 0

\* The least step that is negative once cast to a signed offset.
SignBit == AddrSpace \div 2

(***************************************************************************)
(* C36: zero-sized-element counts survive w-bit wrapping.  For every count *)
(* k in 0 .. 2^w - 1 and every start address, len() computed as            *)
(* end - start modulo 2^w equals the true remaining count: k after         *)
(* construction, and after each call what it was before less what the call *)
(* took, which is n + 1 for an in-range nth(n) or nth_back(n) and          *)
(* min(n, len()) for advance_by(n) and advance_back_by(n), also when the   *)
(* step is 2^(w-1) or more.                                                *)
(***************************************************************************)
C36_ZeroSizedCountsSurviveWrapping ==
    cfg = 0 =>
        /\ ~iter.ub
        /\ 0 <= len(cfg, iter) /\ len(cfg, iter) <= slice_len
        /\ iter.end = (iter.ptr + len(cfg, iter)) % AddrSpace
        /\ iter.ptr = prev.iter.ptr
        /\ op = <<"new">> => len(cfg, iter) = slice_len
        /\ (op[1] \in {"nth", "nth_back"} /\ arg < len_before) =>
             /\ len(cfg, iter) = len_before - (arg + 1)
             /\ ret = <<iter.ptr>>
        /\ Advancing =>
             /\ len(cfg, iter) = len_before - Min(arg, len_before)
             /\ ret = Ok <=> arg <= len_before

\* A slice of 2^w - 1 elements whose end address wrapped past zero, after
\* advance_back_by and then an in-range nth, each by a step that is
\* negative as a signed offset or the count left by one: no element is left.
C36_Witness ==
    /\ cfg = 0 /\ slice_len = AddrSpace - 1
    /\ prev.iter.end < prev.iter.ptr
    /\ op[1] = "nth" /\ arg >= SignBit /\ arg < len_before
    /\ IsSome(ret)
    /\ len(cfg, iter) = len_before - (arg + 1)

====
